---- MODULE Spec2Model ----
(***************************************************************************)
(* Model of the portfolio backtest engine of utils/fund_backtrader_new.py  *)
(* (BasePortfolioBacktest and SubscriptionRedemptionBacktest.backtest).    *)
(*                                                                         *)
(* Numbers.  The code works on floats.  Fund units, cash and market value  *)
(* are modelled as integers counted in ticks, Unit ticks to one fund unit  *)
(* (or one unit of cash); a fund price is a whole number, so that          *)
(* units * price is again a number of ticks.  Divisions round down to a    *)
(* tick.  The portfolio's own unit NAV is a fixed-point number with        *)
(* NavScale steps to 1.0.  NaN, +inf and -inf are kept as values of their  *)
(* own where the code can produce them.                                    *)
(*                                                                         *)
(* The loop body of backtest is followed statement by statement (pc), and  *)
(* the first loop of handle_order call by call (hcur).  History is kept in *)
(* applied, adj, writes and next_id and in the fields id, tdate, accepted, *)
(* stated, held and on of the order records; the code has none of them.    *)
(* Runs are those of a trade_info without money-market funds, so that      *)
(* _adjust_money_fund_nav changes nothing.                                 *)
(***************************************************************************)
EXTENDS Integers, Sequences, FiniteSets, TLC

(***************************************************************************)
(* Bounds of the model.                                                    *)
(***************************************************************************)
NumDays == 3          \* trading dates of a run in explicit-ledger mode
MaxOrders == 3        \* rows of trade_info over the whole run
MaxPerDay == 2        \* rows of trade_info with the same trade date
WeightDays == 4       \* trading dates of a run in weight mode
MaxWeightDates == 2   \* dates the weight table has rows for
MaxLen == 4           \* dates of a history handed to the evaluator

(***************************************************************************)
(* Number representation.                                                  *)
(***************************************************************************)
Unit == 20000         \* ticks per fund unit: one tick is 0.00005
NavScale == 10        \* steps of the portfolio unit NAV per 1.0
NaN == -2000000001
PosInf == 2000000000
NegInf == -2000000000
NoneVal == -2000000002

Abs(x) == IF x < 0 THEN -x ELSE x

\* floor(a * b / c) for c > 0, b >= 0, without forming a * b
MulDiv(a, b, c) == (a \div c) * b + ((a % c) * b) \div c

\* float addition on finite numbers, NaN and the infinities
XAdd(a, b) ==
    IF a = NaN \/ b = NaN THEN NaN
    ELSE IF a = PosInf THEN (IF b = NegInf THEN NaN ELSE PosInf)
    ELSE IF a = NegInf THEN (IF b = PosInf THEN NaN ELSE NegInf)
    ELSE IF b \in {PosInf, NegInf} THEN b
    ELSE a + b

XNeg(a) ==
    IF a = NaN THEN NaN
    ELSE IF a = PosInf THEN NegInf
    ELSE IF a = NegInf THEN PosInf
    ELSE -a

XSub(a, b) == XAdd(a, XNeg(b))

\* float product of a finite number of ticks and a price that may be NaN
XMul(u, p) == IF u = NaN \/ p = NaN THEN NaN ELSE u * p

\* x / current_unit_nav, the divisor a fixed-point number or 0
DivUnitNav(x, unav) ==
    IF x = NaN \/ unav = NaN THEN NaN
    ELSE IF unav = 0 THEN (IF x > 0 THEN PosInf ELSE IF x < 0 THEN NegInf ELSE NaN)
    ELSE IF unav > 0 THEN MulDiv(x, NavScale, unav)
    ELSE MulDiv(-x, NavScale, -unav)

\* floor(r * scale / d) for 0 <= r < d and scale a power of ten, digit by digit
RECURSIVE LongDiv(_, _, _)
LongDiv(r, d, scale) ==
    IF scale = 1 THEN 0
    ELSE LET q == (r * 10) \div d
             rest == (r * 10) % d
         IN  q * (scale \div 10) + LongDiv(rest, d, scale \div 10)

\* current_nav / current_units as a fixed-point unit NAV; units > 0 or +inf
UnitNavOf(nav, units) ==
    IF units = PosInf THEN 0
    ELSE (nav \div units) * NavScale + LongDiv(nav % units, units, NavScale)

(***************************************************************************)
(* Program constants (fund_backtrader_new.py).                             *)
(***************************************************************************)
RedeemFatal == 1000   \* redemption_error: units > holding + 1000 raises
RedeemWarn == 10      \* redemption_error: units > holding + 10 warns
DustInv == 10000      \* _update_portfolio_status: 1e-4 is 1 / DustInv
DustTicks == Unit \div DustInv

(***************************************************************************)
(* State.                                                                  *)
(***************************************************************************)
VARIABLES
    di,               \* index of the trading date the main loop is at
    pc,               \* position inside the loop body of backtest
    err,              \* the exception that ended the run, "none" otherwise
    has_units_col,    \* trade_info carries a units column
    fund_nav_dict,    \* per fund: date -> NAV, NaN where the date is no index entry
    units_df, nav_df, costs_df, portfolio_series,
    units_series, costs_series,
    current_units, current_nav, current_unit_nav, current_costs,
    order_book,       \* idx -> pending order
    handled_idx,
    hcur,             \* keys of order_book that handle_order has yet to visit
    confirm_orders,   \* date key -> list of accepted orders, <<>> for no key
    next_id,          \* rows of trade_info ingested so far
    applied,          \* history: the orders _apply_order was called with, in order
    adj,              \* history: per date and fund, the change of units_series
                      \* made on that date by anything but _apply_order
    writes,           \* times _update_portfolio_records ran for the current date
    trade_info,       \* explicit-ledger mode: the rows of trade_info the loop has
                      \* selected so far; weight mode: self.trade_info, the
                      \* instructions generated so far, <<>> while it is None
                      \* (it is never an empty frame)
    trade_info_weights,   \* weight mode: date -> target weights, NoRow for no row
    redemption_type,      \* weight mode: "today" or "yesterday"
    kwargs,               \* weight mode: flat_fee and percentage_fee of backtest(...)
    flat_fee,             \* weight mode: self.flat_fee, as given to the constructor
    percentage_fee,       \* weight mode: self.percentage_fee, likewise
    nav_data,             \* the NAV rows fetched: fund -> date -> NAV, NaN for no row
    eval_in,          \* PortfolioEvaluator: the series a metric is computed from
    eval_out          \* PortfolioEvaluator: what the metric returned

vars == <<di, pc, err, has_units_col, fund_nav_dict, units_df, nav_df, costs_df,
          portfolio_series, units_series, costs_series, current_units, current_nav,
          current_unit_nav, current_costs, order_book, handled_idx, hcur,
          confirm_orders, next_id, applied, adj, writes, trade_info,
          trade_info_weights, redemption_type, kwargs, flat_fee, percentage_fee,
          nav_data, eval_in, eval_out>>

(***************************************************************************)
(* The run's inputs: calendar, instruments, NAV data.                      *)
(***************************************************************************)
Funds == {"F1", "F2"}
Holidays == {3}       \* calendar dates that are not trading dates

\* fetcher.get_trading_dt: the i-th trading date, strictly increasing
RECURSIVE TradeDate(_)
TradeDate(i) ==
    IF i = 0 THEN 0
    ELSE LET d == TradeDate(i - 1) + 1
         IN  IF d \in Holidays THEN d + 1 ELSE d

\* the number of trading dates of the run
RunDays == IF redemption_type = "none" THEN NumDays ELSE WeightDays

DayIdx == 1..RunDays
TradeDates == {TradeDate(i) : i \in DayIdx}
LastDate == TradeDate(RunDays)
Dates == 0..(LastDate + 2)    \* calendar dates a confirm date may name

\* fetcher.query_fund_nav: the NAV rows of the run, NaN where there is no row.
\* F1 is priced on every trading date (so every trading date is in the index
\* of fund_nav_df); F2 is listed from the second trading date and has no row
\* on the third.
NavRows(f, d) ==
    IF d \notin TradeDates THEN NaN
    ELSE IF f = "F1" THEN (IF d <= 2 THEN 1 ELSE 2)
    ELSE IF d = TradeDate(1) \/ d = TradeDate(3) THEN NaN
    ELSE 1

\* the same rows with F1 falling from 3 to 1 after the second trading date
NavRowsFalling(f, d) ==
    IF d \notin TradeDates THEN NaN
    ELSE IF f = "F1" THEN (IF d <= 2 THEN 3 ELSE 1)
    ELSE IF d = TradeDate(1) \/ d = TradeDate(3) THEN NaN
    ELSE 1

\* self.nav_data: the row of fund f on date d
NavData(f, d) == nav_data[f][d]

\* Series.asof / ffill: the latest value at or before d, NaN if none
RECURSIVE AsOf(_, _)
AsOf(series, d) ==
    IF d < 0 THEN NaN
    ELSE IF series[d] # NaN THEN series[d]
    ELSE AsOf(series, d - 1)

\* fund_nav_df.loc[date]: the pivot of the NAV rows, forward filled
fund_nav_df(d) == [f \in Funds |-> AsOf([x \in Dates |-> NavData(f, x)], d)]

nowadays == TradeDate(di)

ledgerVars == <<units_series, costs_series, current_units>>
recordVars == <<units_df, nav_df, costs_df, portfolio_series>>
bookVars == <<order_book, handled_idx, hcur, confirm_orders>>
weightVars == <<trade_info_weights, redemption_type, kwargs, flat_fee, percentage_fee,
                nav_data>>
evalVars == <<eval_in, eval_out>>

Zero == [f \in Funds |-> 0]

\* a date the weight table has no row for
NoRow == [f \in Funds |-> NoneVal]

\* no metric asked for, nothing returned yet
NoCall == [fn |-> "none"]
NoResult == [of |-> "nothing"]

\* Series.sum(): NaN entries are skipped
RECURSIVE NanSum(_, _)
NanSum(row, fs) ==
    IF fs = {} THEN 0
    ELSE LET f == CHOOSE x \in fs : TRUE
         IN  (IF row[f] = NaN THEN 0 ELSE row[f]) + NanSum(row, fs \ {f})

\* __init__: _initialize_data, _initialize_portfolio
InitPortfolio ==
    /\ di = 1
    /\ pc = "status"
    /\ err = "none"
    /\ fund_nav_dict = [f \in Funds |-> [d \in Dates |-> NavData(f, d)]]
    /\ units_df = [d \in TradeDates |-> Zero]
    /\ nav_df = [d \in TradeDates |-> [f \in Funds |-> NaN]]
    /\ costs_df = [d \in TradeDates |-> Zero]
    /\ portfolio_series = [d \in TradeDates |-> NaN]
    /\ units_series = Zero
    /\ costs_series = Zero
    /\ current_units = 0
    /\ current_nav = 0
    /\ current_unit_nav = NavScale
    /\ current_costs = 0
    /\ order_book = <<>>
    /\ handled_idx = <<>>
    /\ hcur = <<>>
    /\ confirm_orders = [d \in Dates |-> <<>>]
    /\ next_id = 0
    /\ applied = <<>>
    /\ adj = [d \in TradeDates |-> Zero]
    /\ writes = 0

\* a SubscriptionRedemptionBacktest about to run backtest(trade_info)
Init ==
    /\ redemption_type = "none"
    /\ nav_data = [f \in Funds |-> [d \in Dates |-> NavRows(f, d)]]
    /\ flat_fee = 0
    /\ percentage_fee = 0
    /\ InitPortfolio
    /\ has_units_col \in BOOLEAN
    /\ trade_info = <<>>
    /\ trade_info_weights = [d \in 1..LastDate |-> NoRow]
    /\ kwargs = [flat_fee |-> 0, percentage_fee |-> 0]
    /\ eval_in = NoCall
    /\ eval_out = NoResult

(***************************************************************************)
(* Settlement: _apply_order, _update_confirmed_orders.                     *)
(***************************************************************************)
\* the working state _apply_order mutates
Ledger == [units |-> units_series, costs |-> costs_series,
           pu |-> current_units, applied |-> applied]

\* _apply_order forgetting the cost of the order
apply_order_nocost(L, order) ==
    IF order.type = "sub"
    THEN [units |-> [L.units EXCEPT ![order.fund] = @ + order.units],
          costs |-> L.costs,
          pu |-> XAdd(L.pu, order.pu),
          applied |-> Append(L.applied, [order EXCEPT !.on = nowadays])]
    ELSE [units |-> [L.units EXCEPT ![order.fund] = @ - order.units],
          costs |-> L.costs,
          pu |-> XSub(L.pu, order.pu),
          applied |-> Append(L.applied, [order EXCEPT !.on = nowadays])]

\* _apply_order crediting the units of a redemption instead of debiting them
apply_order_credit(L, order) ==
    [units |-> [L.units EXCEPT ![order.fund] = @ + order.units],
     costs |-> [L.costs EXCEPT ![order.fund] =
                   IF order.type = "sub" THEN XAdd(@, order.amount)
                   ELSE XSub(@, order.amount)],
     pu |-> IF order.type = "sub" THEN XAdd(L.pu, order.pu) ELSE XSub(L.pu, order.pu),
     applied |-> Append(L.applied, [order EXCEPT !.on = nowadays])]

apply_order(L, order) ==
    IF order.type = "sub"
    THEN [units |-> [L.units EXCEPT ![order.fund] = @ + order.units],
          costs |-> [L.costs EXCEPT ![order.fund] = XAdd(@, order.amount)],
          pu |-> XAdd(L.pu, order.pu),
          applied |-> Append(L.applied, [order EXCEPT !.on = nowadays])]
    ELSE [units |-> [L.units EXCEPT ![order.fund] = @ - order.units],
          costs |-> [L.costs EXCEPT ![order.fund] = XSub(@, order.amount)],
          pu |-> XSub(L.pu, order.pu),
          applied |-> Append(L.applied, [order EXCEPT !.on = nowadays])]

RECURSIVE ApplyAll(_, _)
ApplyAll(L, orders) ==
    IF orders = <<>> THEN L
    ELSE ApplyAll(apply_order(L, Head(orders)), Tail(orders))

\* the ledger after _update_confirmed_orders(date)
update_confirmed_orders(date) == ApplyAll(Ledger, confirm_orders[date])

\* units_series.where(abs(units_series) >= 1e-4, 0.0)
DustClamp(units) == [f \in Funds |-> IF Abs(units[f]) >= DustTicks THEN units[f] ELSE 0]

\* units_series * fund_nav_df.loc[date]
NavRow(units, date) == [f \in Funds |-> XMul(units[f], fund_nav_df(date)[f])]

\* _update_portfolio_status going straight to the next step of the loop body
UpdatePortfolioStatus_skipped ==
    /\ pc = "status"
    /\ pc' = "ingest"
    /\ UNCHANGED <<trade_info, weightVars, evalVars, di, err, has_units_col, fund_nav_dict,
                   recordVars, ledgerVars, current_nav, current_unit_nav, current_costs,
                   bookVars, next_id, applied, adj, writes>>

\* _update_portfolio_status dividing by any positive number of outstanding units
UpdatePortfolioStatus_nohold ==
    /\ pc = "status"
    /\ LET L == update_confirmed_orders(nowadays)
           u == DustClamp(L.units)
           nav == NanSum(NavRow(u, nowadays), Funds)
       IN  /\ units_series' = u
           /\ costs_series' = L.costs
           /\ current_units' = L.pu
           /\ applied' = L.applied
           /\ adj' = [adj EXCEPT ![nowadays] =
                        [f \in Funds |-> @[f] + u[f] - L.units[f]]]
           /\ current_nav' = nav
           /\ current_unit_nav' =
                IF L.pu # NaN /\ L.pu # NegInf /\ (L.pu = PosInf \/ L.pu > 0)
                THEN UnitNavOf(nav, L.pu)
                ELSE current_unit_nav
    /\ confirm_orders' = [confirm_orders EXCEPT ![nowadays] = <<>>]
    /\ pc' = "ingest"
    /\ UNCHANGED <<trade_info, weightVars, evalVars, di, err, has_units_col, fund_nav_dict, recordVars, current_costs,
                   order_book, handled_idx, hcur, next_id, writes>>

\* _update_portfolio_status(date): step 1-3 of the loop body
UpdatePortfolioStatus ==
    /\ pc = "status"
    /\ LET L == update_confirmed_orders(nowadays)
           u == DustClamp(L.units)
           nav == NanSum(NavRow(u, nowadays), Funds)
       IN  /\ units_series' = u
           /\ costs_series' = L.costs
           /\ current_units' = L.pu
           /\ applied' = L.applied
           /\ adj' = [adj EXCEPT ![nowadays] =
                        [f \in Funds |-> @[f] + u[f] - L.units[f]]]
           /\ current_nav' = nav
           /\ current_unit_nav' =
                IF L.pu # NaN /\ L.pu # NegInf /\ (L.pu = PosInf \/ L.pu > DustTicks)
                THEN UnitNavOf(nav, L.pu)
                ELSE current_unit_nav
    /\ confirm_orders' = [confirm_orders EXCEPT ![nowadays] = <<>>]
    /\ pc' = "ingest"
    /\ UNCHANGED <<trade_info, weightVars, evalVars, di, err, has_units_col, fund_nav_dict, recordVars, current_costs,
                   order_book, handled_idx, hcur, next_id, writes>>

\* _update_confirmed_orders(date) as called from the loop body: step 6
ResettleConfirmedOrders ==
    /\ pc = "resettle"
    /\ LET L == update_confirmed_orders(nowadays)
       IN  /\ units_series' = L.units
           /\ costs_series' = L.costs
           /\ current_units' = L.pu
           /\ applied' = L.applied
    /\ confirm_orders' = [confirm_orders EXCEPT ![nowadays] = <<>>]
    /\ pc' = "record"
    /\ UNCHANGED <<trade_info, weightVars, evalVars, di, err, has_units_col, fund_nav_dict, recordVars, current_nav,
                   current_unit_nav, current_costs, order_book, handled_idx, hcur,
                   next_id, adj, writes>>

(***************************************************************************)
(* Ingestion: ensure_date_in_nav, _process_daily_trades.                   *)
(***************************************************************************)
\* ensure_date_in_nav(fund_code, target_date): the value returned and the
\* cached series afterwards
ensure_date_in_nav(series, target) ==
    IF series[target] # NaN
    THEN [nav |-> series[target], series |-> series]
    ELSE LET latest == AsOf(series, target)
         IN  IF latest = NaN
             THEN [nav |-> NoneVal, series |-> series]
             ELSE [nav |-> latest, series |-> [series EXCEPT ![target] = latest]]

\* (amount + flat_fee) / nav / (1 - percentage_fee / 100)
RedeemUnitsOf(amount, flat, pct, nav) ==
    IF amount = NaN THEN NaN
    ELSE MulDiv((amount + flat) \div nav, 100, 100 - pct)

BookPut(book, k, v) ==
    [x \in (DOMAIN book) \cup {k} |-> IF x = k THEN v ELSE book[x]]

\* the second loop of handle_order popping nothing
BookDel_keep(book, ks) == book

BookDel(book, ks) == [x \in (DOMAIN book) \ ks |-> book[x]]

MaxOf(S) == CHOOSE x \in S : \A y \in S : y <= x

\* the loop of _process_daily_trades over the rows of the day, from row k on
RECURSIVE IngestRows(_, _, _, _, _)

\* _process_daily_trades taking every type but redemption for a subscription
IngestRows_lenient(rows, k, book, navs, new_idx) ==
    IF k > Len(rows) THEN [book |-> book, navs |-> navs, err |-> "none"]
    ELSE LET row == rows[k]
             e == ensure_date_in_nav(navs[row.fund], row.tdate)
         IN  IF row.type = "red"
             THEN IF e.nav = NoneVal
                  THEN [book |-> book, navs |-> navs, err |-> "TypeError"]
                  ELSE LET units == RedeemUnitsOf(row.amount, row.flat, row.pct, e.nav)
                           entry == [fund |-> row.fund, amount |-> row.amount,
                                     flat |-> row.flat, pct |-> row.pct,
                                     type |-> row.type, confirm |-> row.confirm,
                                     units |-> IF row.units # NoneVal THEN row.units
                                               ELSE units,
                                     id |-> row.id, tdate |-> row.tdate]
                       IN  IngestRows(rows, k + 1, BookPut(book, new_idx, entry),
                                      [navs EXCEPT ![row.fund] = e.series], new_idx + 1)
             ELSE LET entry == [fund |-> row.fund, amount |-> row.amount,
                                flat |-> row.flat, pct |-> row.pct,
                                type |-> "sub", confirm |-> row.confirm,
                                units |-> row.units, id |-> row.id, tdate |-> row.tdate]
                  IN  IngestRows(rows, k + 1, BookPut(book, new_idx, entry),
                                 navs, new_idx + 1)

IngestRows(rows, k, book, navs, new_idx) ==
    IF k > Len(rows) THEN [book |-> book, navs |-> navs, err |-> "none"]
    ELSE LET row == rows[k]
             e == ensure_date_in_nav(navs[row.fund], row.tdate)
         IN  IF row.type = "red"
             THEN IF e.nav = NoneVal
                  THEN [book |-> book, navs |-> navs, err |-> "TypeError"]
                  ELSE LET units == RedeemUnitsOf(row.amount, row.flat, row.pct, e.nav)
                           entry == [fund |-> row.fund, amount |-> row.amount,
                                     flat |-> row.flat, pct |-> row.pct,
                                     type |-> row.type, confirm |-> row.confirm,
                                     units |-> IF row.units # NoneVal THEN row.units
                                               ELSE units,
                                     id |-> row.id, tdate |-> row.tdate]
                       IN  IngestRows(rows, k + 1, BookPut(book, new_idx, entry),
                                      [navs EXCEPT ![row.fund] = e.series], new_idx + 1)
             ELSE IF row.type = "sub"
             THEN LET entry == [fund |-> row.fund, amount |-> row.amount,
                                flat |-> row.flat, pct |-> row.pct,
                                type |-> row.type, confirm |-> row.confirm,
                                units |-> row.units, id |-> row.id, tdate |-> row.tdate]
                  IN  IngestRows(rows, k + 1, BookPut(book, new_idx, entry),
                                 navs, new_idx + 1)
             ELSE [book |-> book, navs |-> navs, err |-> "ValueError_type"]

(***************************************************************************)
(* The rows of trade_info.  A template names fund, type, amount, fees,     *)
(* units and the distance of the confirm date from the trade date.         *)
(***************************************************************************)
Tpl(f, t, a, fl, p, u, lag) ==
    [fund |-> f, type |-> t, amount |-> a, flat |-> fl, pct |-> p, units |-> u, lag |-> lag]

\* rows of a trade_info with a units column (NaN in it for subscriptions)
TemplatesUnits ==
    { Tpl("F1", "sub", 1000 * Unit, 0, 0, NaN, 0),
      Tpl("F1", "red", NaN, 0, 0, 500 * Unit, 0),
      Tpl("F1", "red", NaN, 0, 0, 500 * Unit - 1, 0),
      Tpl("F1", "red", NaN, 2 * Unit, 10, 995 * Unit, 1),
      Tpl("F1", "red", NaN, 0, 0, 1010 * Unit, 2),
      Tpl("F1", "red", NaN, 0, 0, 2000 * Unit, 1),
      Tpl("F1", "red", NaN, 0, 0, 5000 * Unit, 1) }

\* rows of a trade_info without a units column
TemplatesAmount ==
    { Tpl("F1", "sub", 1000 * Unit, 0, 0, NoneVal, 1),
      Tpl("F1", "sub", 1100 * Unit, 0, 10, NoneVal, 2),
      Tpl("F1", "sub", 1000 * Unit, 0, 0, NoneVal, -1),
      Tpl("F2", "sub", 1000 * Unit, 0, 0, NoneVal, 0),
      Tpl("F1", "red", 900 * Unit, 9 * (Unit \div 2), 10, NoneVal, 1),
      Tpl("F2", "red", 500 * Unit, 0, 0, NoneVal, 1),
      Tpl("F1", "switch", 1000 * Unit, 0, 0, NoneVal, 1) }

Templates == IF has_units_col THEN TemplatesUnits ELSE TemplatesAmount

RowOf(t, date, id) ==
    [fund |-> t.fund, type |-> t.type, amount |-> t.amount, flat |-> t.flat,
     pct |-> t.pct, units |-> t.units, tdate |-> date, confirm |-> date + t.lag,
     id |-> id]

\* trade_info[trade_info['交易日期'] == date]: up to MaxPerDay rows
DailyTrades ==
    { s \in UNION {[1..n -> Templates] : n \in 0..MaxPerDay} :
        next_id + Len(s) <= MaxOrders }

\* _process_daily_trades(daily_trades) and the test `if self.order_book`: step 4
ProcessDailyTrades ==
    /\ redemption_type = "none"
    /\ pc = "ingest"
    /\ \E ts \in DailyTrades :
         LET rows == [k \in 1..Len(ts) |-> RowOf(ts[k], nowadays, next_id + k)]
             new_idx == IF DOMAIN order_book # {} THEN MaxOf(DOMAIN order_book) + 1 ELSE 0
             r == IngestRows(rows, 1, order_book, fund_nav_dict, new_idx)
         IN  /\ order_book' = r.book
             /\ fund_nav_dict' = r.navs
             /\ err' = r.err
             /\ next_id' = next_id + Len(ts)
             /\ trade_info' = trade_info \o rows
             /\ pc' = IF r.err # "none" THEN "error"
                      ELSE IF DOMAIN r.book # {} THEN "handle" ELSE "resettle"
    /\ UNCHANGED <<weightVars, evalVars, di, has_units_col, recordVars, ledgerVars, current_nav,
                   current_unit_nav, current_costs, handled_idx, hcur, confirm_orders,
                   applied, adj, writes>>

(***************************************************************************)
(* Validation: handle_order, process_trade, redemption_error,              *)
(* _record_order.                                                          *)
(***************************************************************************)
\* the keys of a dict in iteration order (insertion order, ascending here)
RECURSIVE KeysAsc(_)
KeysAsc(S) ==
    IF S = {} THEN <<>>
    ELSE LET m == CHOOSE x \in S : \A y \in S : x <= y
         IN  <<m>> \o KeysAsc(S \ {m})

\* redemption_error(units, fund_code): whether it raises, and units_series after
\* redemption_error raising from holding + 1000 on, the bound excluded
redemption_error_excl(units, fund, series) ==
    IF units >= series[fund] + RedeemFatal * Unit
    THEN [raised |-> TRUE, series |-> series]
    ELSE IF units > series[fund] + RedeemWarn * Unit
    THEN [raised |-> FALSE, series |-> [series EXCEPT ![fund] = units]]
    ELSE IF Abs(units - series[fund]) <= RedeemWarn * Unit
    THEN [raised |-> FALSE, series |-> [series EXCEPT ![fund] = units]]
    ELSE [raised |-> FALSE, series |-> series]

\* redemption_error overwriting the holding before it tests the request
redemption_error_late(units, fund, series) ==
    IF units > series[fund] + RedeemFatal * Unit
    THEN [raised |-> TRUE, series |-> [series EXCEPT ![fund] = units]]
    ELSE IF units > series[fund] + RedeemWarn * Unit
    THEN [raised |-> FALSE, series |-> [series EXCEPT ![fund] = units]]
    ELSE IF Abs(units - series[fund]) <= RedeemWarn * Unit
    THEN [raised |-> FALSE, series |-> [series EXCEPT ![fund] = units]]
    ELSE [raised |-> FALSE, series |-> series]

redemption_error(units, fund, series) ==
    IF units > series[fund] + RedeemFatal * Unit
    THEN [raised |-> TRUE, series |-> series]
    ELSE IF units > series[fund] + RedeemWarn * Unit
    THEN [raised |-> FALSE, series |-> [series EXCEPT ![fund] = units]]
    ELSE IF Abs(units - series[fund]) <= RedeemWarn * Unit
    THEN [raised |-> FALSE, series |-> [series EXCEPT ![fund] = units]]
    ELSE [raised |-> FALSE, series |-> series]

\* the units of a subscription computed without its fees
SubscribeUnitsOf_nofee(amount, flat, pct, nav) == amount \div nav

\* (amount - flat_fee) / nav / (1 + percentage_fee / 100)
SubscribeUnitsOf(amount, flat, pct, nav) ==
    MulDiv((amount - flat) \div nav, 100, 100 + pct)

\* the proceeds of a redemption computed without its fees
RedeemProceedsOf_gross(units, flat, pct, nav) == units * nav

\* units * nav * (1 - percentage_fee / 100) - flat_fee
RedeemProceedsOf(units, flat, pct, nav) ==
    MulDiv(units * nav, 100 - pct, 100) - flat

\* _record_order without the clamp of a past confirm date
RecordKey_stated(now, confirm) == confirm

\* the date key _record_order files the order under
RecordKey(now, confirm) == IF now > confirm THEN now ELSE confirm

\* _record_order(...): the confirmation queue afterwards
\* (id, accepted, stated, held and on are history fields: the row's number, the
\* date of acceptance, the confirm date the row stated, the working holding
\* the order was validated against, and the date of application)
record_order(queue, now, id, fund, amount, type, confirm, units, pu, held) ==
    LET key == RecordKey(now, confirm)
    IN  [queue EXCEPT ![key] = Append(@, [fund |-> fund, amount |-> amount,
                                          type |-> type, confirm |-> key,
                                          units |-> units, pu |-> pu,
                                          id |-> id, accepted |-> now,
                                          stated |-> confirm, held |-> held,
                                          on |-> NoneVal])]

\* handle_order, up to its first loop
HandleOrderBegin ==
    /\ pc = "handle"
    /\ handled_idx' = <<>>
    /\ hcur' = KeysAsc(DOMAIN order_book)
    /\ pc' = "process"
    /\ UNCHANGED <<trade_info, weightVars, evalVars, di, err, has_units_col, fund_nav_dict, recordVars, ledgerVars,
                   current_nav, current_unit_nav, current_costs, order_book,
                   confirm_orders, next_id, applied, adj, writes>>

\* process_trade(idx, order) for the next key of the first loop of handle_order
ProcessTrade ==
    /\ pc = "process"
    /\ hcur # <<>>
    /\ LET idx == Head(hcur)
           order == order_book[idx]
           date == nowadays
           nav == fund_nav_dict[order.fund][date]
       IN  IF nav = NaN
           THEN \* no NAV on the date: the method returns
                /\ UNCHANGED <<units_series, confirm_orders, handled_idx, err>>
                /\ pc' = "process"
           ELSE IF order.type = "sub"
           THEN LET units == SubscribeUnitsOf(order.amount, order.flat, order.pct, nav)
                    pu == DivUnitNav(order.amount, current_unit_nav)
                IN  /\ confirm_orders' = record_order(confirm_orders, date, order.id,
                              order.fund, order.amount, order.type, order.confirm,
                              units, pu, units_series[order.fund])
                    /\ handled_idx' = Append(handled_idx, idx)
                    /\ UNCHANGED <<units_series, err>>
                    /\ pc' = "process"
           ELSE LET units == order.units
                    pu == DivUnitNav(units * nav, current_unit_nav)
                    amount == IF order.amount = NaN
                              THEN RedeemProceedsOf(units, order.flat, order.pct, nav)
                              ELSE order.amount
                    chk == redemption_error(units, order.fund, units_series)
                IN  IF chk.raised
                    THEN /\ err' = "ValueError_redeem"
                         /\ pc' = "error"
                         /\ units_series' = chk.series
                         /\ UNCHANGED <<confirm_orders, handled_idx>>
                    ELSE /\ units_series' = chk.series
                         /\ confirm_orders' = record_order(confirm_orders, date,
                                   order.id, order.fund, amount, order.type,
                                   order.confirm, units, pu,
                                   units_series[order.fund])
                         /\ handled_idx' = Append(handled_idx, idx)
                         /\ UNCHANGED err
                         /\ pc' = "process"
    /\ hcur' = Tail(hcur)
    /\ adj' = [adj EXCEPT ![nowadays] =
                 [f \in Funds |-> @[f] + units_series'[f] - units_series[f]]]
    /\ UNCHANGED <<trade_info, weightVars, evalVars, di, has_units_col, fund_nav_dict, recordVars, costs_series,
                   current_units, current_nav, current_unit_nav, current_costs,
                   order_book, next_id, applied, writes>>

\* handle_order, its second loop: the handled keys leave the order book
HandleOrderPop ==
    /\ pc = "process"
    /\ hcur = <<>>
    /\ order_book' = BookDel(order_book, {handled_idx[k] : k \in 1..Len(handled_idx)})
    /\ pc' = "resettle"
    /\ UNCHANGED <<trade_info, weightVars, evalVars, di, err, has_units_col, fund_nav_dict, recordVars, ledgerVars,
                   current_nav, current_unit_nav, current_costs, handled_idx, hcur,
                   confirm_orders, next_id, applied, adj, writes>>

(***************************************************************************)
(* Records: _update_portfolio_records, and the loop of backtest.           *)
(***************************************************************************)
\* _update_portfolio_records valuing the units row before it is assigned
update_portfolio_records_stale(date) ==
    /\ units_df' = [units_df EXCEPT ![date] = units_series]
    /\ nav_df' = [nav_df EXCEPT ![date] = NavRow(units_df[date], date)]
    /\ current_nav' = NanSum(NavRow(units_df[date], date), Funds)
    /\ portfolio_series' = [portfolio_series EXCEPT ![date] = current_unit_nav]
    /\ costs_df' = [costs_df EXCEPT ![date] = costs_series]
    /\ current_costs' = NanSum(costs_series, Funds)

\* _update_portfolio_records adding to the rows instead of assigning them
update_portfolio_records_add(date) ==
    /\ units_df' = [units_df EXCEPT ![date] =
                      [f \in Funds |-> @[f] + units_series[f]]]
    /\ nav_df' = [nav_df EXCEPT ![date] = NavRow(units_df'[date], date)]
    /\ current_nav' = NanSum(NavRow(units_df'[date], date), Funds)
    /\ portfolio_series' = [portfolio_series EXCEPT ![date] = current_unit_nav]
    /\ costs_df' = [costs_df EXCEPT ![date] =
                      [f \in Funds |-> @[f] + costs_series[f]]]
    /\ current_costs' = NanSum(costs_series, Funds)

\* _update_portfolio_records(date): step 7
update_portfolio_records(date) ==
    /\ units_df' = [units_df EXCEPT ![date] = units_series]
    /\ nav_df' = [nav_df EXCEPT ![date] = NavRow(units_series, date)]
    /\ current_nav' = NanSum(NavRow(units_series, date), Funds)
    /\ portfolio_series' = [portfolio_series EXCEPT ![date] = current_unit_nav]
    /\ costs_df' = [costs_df EXCEPT ![date] = costs_series]
    /\ current_costs' = NanSum(costs_series, Funds)

UpdatePortfolioRecords ==
    /\ pc = "record"
    /\ update_portfolio_records(nowadays)
    /\ writes' = 1
    /\ pc' = "recorded"
    /\ UNCHANGED <<trade_info, weightVars, evalVars, di, err, has_units_col, fund_nav_dict, ledgerVars, current_unit_nav,
                   bookVars, next_id, applied, adj>>

\* a second call of _update_portfolio_records for the date just recorded
RecordAgain ==
    /\ pc = "recorded"
    /\ writes = 1
    /\ update_portfolio_records(nowadays)
    /\ writes' = 2
    /\ UNCHANGED <<trade_info, weightVars, evalVars, di, pc, err, has_units_col, fund_nav_dict, ledgerVars,
                   current_unit_nav, bookVars, next_id, applied, adj>>

\* `for date in self.trade_dates`: the next date, or the end of the run
NextDate ==
    /\ pc = "recorded"
    /\ IF di < RunDays
       THEN di' = di + 1 /\ pc' = "status"
       ELSE di' = di /\ pc' = "done"
    /\ writes' = 0
    /\ UNCHANGED <<trade_info, weightVars, evalVars, err, has_units_col, fund_nav_dict, recordVars, ledgerVars,
                   current_nav, current_unit_nav, current_costs, bookVars, next_id,
                   applied, adj>>

Next ==
    \/ UpdatePortfolioStatus
    \/ ProcessDailyTrades
    \/ HandleOrderBegin
    \/ ProcessTrade
    \/ HandleOrderPop
    \/ ResettleConfirmedOrders
    \/ UpdatePortfolioRecords
    \/ RecordAgain
    \/ NextDate

Spec == Init /\ [][Next]_vars

(***************************************************************************)
(* Weight mode: WeightBasedBacktest.  Weights are whole percents.          *)
(***************************************************************************)
initial_navs == 1000 * Unit     \* the notional the caller passes to backtest

\* fund_nav_df.columns: the fund codes in ascending order
FundSeq == <<"F1", "F2">>

\* the rows of the weight table of one date, a fund without a row at weight 0
WeightRows ==
    { [F1 |-> 50, F2 |-> 50],
      [F1 |-> 100, F2 |-> 0],
      [F1 |-> 30, F2 |-> 30] }

\* the weight tables: rows for at least one date of the calendar range
WeightTables ==
    { t \in [1..LastDate -> WeightRows \cup {NoRow}] :
        Cardinality({d \in 1..LastDate : t[d] # NoRow}) \in 1..MaxWeightDates }

\* the values of flat_fee and percentage_fee in **kwargs
FeeChoices == { [flat_fee |-> 0, percentage_fee |-> 0],
                [flat_fee |-> 2 * Unit, percentage_fee |-> 10] }

\* trade_info['交易日期'].unique(), .min() and .max()
WeightDates == {d \in 1..LastDate : trade_info_weights[d] # NoRow}
MinOf(S) == CHOOSE x \in S : \A y \in S : x <= y
first_trade_date == MinOf(WeightDates)
last_trade_date == MaxOf(WeightDates)

\* self.trade_dates[self.trade_dates.get_loc(date) + k], NoneVal past the end
TradeDateAfter(k) == IF di + k <= RunDays THEN TradeDate(di + k) ELSE NoneVal

\* current_nav * target_position, the weight a percent
TargetValue(cnav, w) == MulDiv(cnav, w, 100)

\* generate_redemptions dating its rows on the confirm date it is given
generate_redemptions_at_switch(date, confirm_date, target_position) ==
    LET nav_date == fund_nav_df(date)
        redemption_units(f) ==
            IF nav_date[f] = NaN THEN NaN
            ELSE units_series[f] - TargetValue(current_nav, target_position[f]) \div nav_date[f]
        fs == SelectSeq(FundSeq, LAMBDA f : redemption_units(f) # NaN /\ redemption_units(f) > 0)
    IN  [k \in 1..Len(fs) |->
            [fund |-> fs[k], type |-> "red", tdate |-> confirm_date, confirm |-> confirm_date,
             amount |-> NaN, units |-> redemption_units(fs[k])]]

\* generate_redemptions(date, confirm_date, target_position): the rows
generate_redemptions(date, confirm_date, target_position) ==
    LET nav_date == fund_nav_df(date)
        redemption_units(f) ==
            IF nav_date[f] = NaN THEN NaN
            ELSE units_series[f] - TargetValue(current_nav, target_position[f]) \div nav_date[f]
        fs == SelectSeq(FundSeq, LAMBDA f : redemption_units(f) # NaN /\ redemption_units(f) > 0)
    IN  [k \in 1..Len(fs) |->
            [fund |-> fs[k], type |-> "red", tdate |-> date, confirm |-> confirm_date,
             amount |-> NaN, units |-> redemption_units(fs[k])]]

\* generate_subscriptions subscribing the whole target value of a fund
generate_subscriptions_gross(date, confirm_date, target_position, cnav) ==
    LET nav_date == fund_nav_df(date)
        filled(f) == IF nav_date[f] = NaN THEN 1 ELSE nav_date[f]
        subscription_nav(f) ==
            TargetValue(cnav, target_position[f]) - units_series[f] * filled(f)
        fs == SelectSeq(FundSeq, LAMBDA f : subscription_nav(f) > 0)
    IN  [k \in 1..Len(fs) |->
            [fund |-> fs[k], type |-> "sub", tdate |-> date, confirm |-> confirm_date,
             amount |-> TargetValue(cnav, target_position[fs[k]]), units |-> NaN]]

\* generate_subscriptions(date, confirm_date, target_position): the rows, with
\* self.current_nav as it is when the method runs
generate_subscriptions(date, confirm_date, target_position, cnav) ==
    LET nav_date == fund_nav_df(date)
        filled(f) == IF nav_date[f] = NaN THEN 1 ELSE nav_date[f]
        subscription_nav(f) ==
            TargetValue(cnav, target_position[f]) - units_series[f] * filled(f)
        fs == SelectSeq(FundSeq, LAMBDA f : subscription_nav(f) > 0)
    IN  [k \in 1..Len(fs) |->
            [fund |-> fs[k], type |-> "sub", tdate |-> date, confirm |-> confirm_date,
             amount |-> subscription_nav(fs[k]), units |-> NaN]]

\* _generate_initial_trades sizing against the portfolio's own NAV
generate_initial_trades_actual(date) ==
    LET confirm_date == TradeDateAfter(1)
    IN  IF confirm_date = NoneVal
        THEN [rows |-> <<>>, err |-> "IndexError", cnav |-> current_nav]
        ELSE [rows |-> generate_subscriptions(date, confirm_date,
                           trade_info_weights[date], current_nav),
              err |-> "none", cnav |-> current_nav]

\* _generate_initial_trades(trade_info, date, initial_navs): the rows, the
\* exception if any, and self.current_nav afterwards
generate_initial_trades(date) ==
    LET confirm_date == TradeDateAfter(1)
    IN  IF confirm_date = NoneVal
        THEN [rows |-> <<>>, err |-> "IndexError", cnav |-> current_nav]
        ELSE [rows |-> generate_subscriptions(date, confirm_date,
                           trade_info_weights[date], initial_navs),
              err |-> "none", cnav |-> initial_navs]

\* generate_trades_based_weights putting the subscriptions before the redemptions
generate_trades_based_weights_subs_first(date) ==
    LET none == [rows |-> <<>>, err |-> "none", cnav |-> current_nav]
        index_error == [rows |-> <<>>, err |-> "IndexError", cnav |-> current_nav]
        both(target_date, confirm_date) ==
            [rows |-> generate_subscriptions(target_date, confirm_date,
                                           trade_info_weights[target_date], current_nav)
                      \o generate_redemptions(date, target_date,
                                           trade_info_weights[target_date]),
             err |-> "none", cnav |-> current_nav]
    IN  IF (redemption_type = "yesterday" /\ date >= last_trade_date)
           \/ (redemption_type = "today" /\ date > last_trade_date)
        THEN none
        ELSE IF redemption_type = "yesterday"
        THEN IF TradeDateAfter(1) = NoneVal THEN index_error
             ELSE IF TradeDateAfter(1) \notin WeightDates THEN none
             ELSE IF TradeDateAfter(2) = NoneVal THEN index_error
             ELSE both(TradeDateAfter(1), TradeDateAfter(2))
        ELSE IF date \notin WeightDates THEN none
             ELSE IF TradeDateAfter(1) = NoneVal THEN index_error
             ELSE both(date, TradeDateAfter(1))

\* generate_trades_based_weights(trade_info, date, redemption_type)
generate_trades_based_weights(date) ==
    LET none == [rows |-> <<>>, err |-> "none", cnav |-> current_nav]
        index_error == [rows |-> <<>>, err |-> "IndexError", cnav |-> current_nav]
        both(target_date, confirm_date) ==
            [rows |-> generate_redemptions(date, target_date,
                                           trade_info_weights[target_date])
                      \o generate_subscriptions(target_date, confirm_date,
                                           trade_info_weights[target_date], current_nav),
             err |-> "none", cnav |-> current_nav]
    IN  IF (redemption_type = "yesterday" /\ date >= last_trade_date)
           \/ (redemption_type = "today" /\ date > last_trade_date)
        THEN none
        ELSE IF redemption_type = "yesterday"
        THEN IF TradeDateAfter(1) = NoneVal THEN index_error
             ELSE IF TradeDateAfter(1) \notin WeightDates THEN none
             ELSE IF TradeDateAfter(2) = NoneVal THEN index_error
             ELSE both(TradeDateAfter(1), TradeDateAfter(2))
        ELSE IF date \notin WeightDates THEN none
             ELSE IF TradeDateAfter(1) = NoneVal THEN index_error
             ELSE both(date, TradeDateAfter(1))

\* the generated rows with the fees of the constructor in the fee columns
Instructions_ctor_fees(rows, base) ==
    [k \in 1..Len(rows) |->
        [fund |-> rows[k].fund, type |-> rows[k].type, amount |-> rows[k].amount,
         flat |-> flat_fee, pct |-> percentage_fee,
         units |-> rows[k].units, tdate |-> rows[k].tdate,
         confirm |-> rows[k].confirm, id |-> base + k]]

\* the generated rows with the fee columns, numbered as rows of self.trade_info
Instructions(rows, base) ==
    [k \in 1..Len(rows) |->
        [fund |-> rows[k].fund, type |-> rows[k].type, amount |-> rows[k].amount,
         flat |-> kwargs.flat_fee, pct |-> kwargs.percentage_fee,
         units |-> rows[k].units, tdate |-> rows[k].tdate,
         confirm |-> rows[k].confirm, id |-> base + k]]

\* WeightBasedBacktest.backtest, lines 399-423 of the loop body: the trades
\* of the date are generated, appended to self.trade_info, and the rows dated
\* today are ingested
GenerateTrades ==
    /\ redemption_type # "none"
    /\ pc = "ingest"
    /\ LET date == nowadays
           g == IF date = first_trade_date THEN generate_initial_trades(date)
                ELSE generate_trades_based_weights(date)
           info == trade_info \o Instructions(g.rows, Len(trade_info))
       IN  /\ current_nav' = g.cnav
           /\ trade_info' = info
           /\ IF g.err # "none"
              THEN /\ err' = g.err
                   /\ pc' = "error"
                   /\ UNCHANGED <<order_book, fund_nav_dict, next_id>>
              ELSE IF info = <<>>
              THEN \* self.trade_info is None: None[...] raises TypeError
                   /\ err' = "TypeError"
                   /\ pc' = "error"
                   /\ UNCHANGED <<order_book, fund_nav_dict, next_id>>
              ELSE LET rows == SelectSeq(info, LAMBDA r : r.tdate = date)
                       new_idx == IF DOMAIN order_book # {}
                                  THEN MaxOf(DOMAIN order_book) + 1 ELSE 0
                       r == IngestRows(rows, 1, order_book, fund_nav_dict, new_idx)
                   IN  /\ order_book' = r.book
                       /\ fund_nav_dict' = r.navs
                       /\ err' = r.err
                       /\ next_id' = next_id + Len(rows)
                       /\ pc' = IF r.err # "none" THEN "error"
                                ELSE IF DOMAIN r.book # {} THEN "handle" ELSE "resettle"
    /\ UNCHANGED <<weightVars, evalVars, di, has_units_col, recordVars, ledgerVars,
                   current_unit_nav, current_costs, handled_idx, hcur, confirm_orders,
                   applied, adj, writes>>

\* a WeightBasedBacktest about to run backtest(trade_info, redemption_type,
\* initial_navs, **kwargs)
InitWeight ==
    /\ redemption_type \in {"today", "yesterday"}
    /\ nav_data \in { [f \in Funds |-> [d \in Dates |-> NavRows(f, d)]],
                      [f \in Funds |-> [d \in Dates |-> NavRowsFalling(f, d)]] }
    /\ \E c \in FeeChoices : flat_fee = c.flat_fee /\ percentage_fee = c.percentage_fee
    /\ InitPortfolio
    /\ has_units_col = TRUE
    /\ trade_info = <<>>
    /\ trade_info_weights \in WeightTables
    /\ kwargs \in FeeChoices
    /\ eval_in = NoCall
    /\ eval_out = NoResult

NextWeight ==
    \/ UpdatePortfolioStatus
    \/ GenerateTrades
    \/ HandleOrderBegin
    \/ ProcessTrade
    \/ HandleOrderPop
    \/ ResettleConfirmedOrders
    \/ UpdatePortfolioRecords
    \/ NextDate

SpecWeight == InitWeight /\ [][NextWeight]_vars

\* a run of either class: SubscriptionRedemptionBacktest.backtest or
\* WeightBasedBacktest.backtest
InitModes == Init \/ InitWeight

NextModes == Next \/ NextWeight

SpecModes == InitModes /\ [][NextModes]_vars

(***************************************************************************)
(* PortfolioEvaluator.  A history is a sequence of portfolio unit NAVs,    *)
(* one per date, the dates numbered from 1; the NAVs are positive and      *)
(* counted in tenths.  Percentages are counted in hundredths of a percent, *)
(* which is what round(x, 2) leaves of them.                               *)
(***************************************************************************)
NavValues == {9, 10, 11, 12}

Histories == [1..MaxLen -> NavValues]

\* round(100 * n / d, 2) for d > 0, in hundredths of a percent (half to even)
Round2Pct(n, d) ==
    LET q == (10000 * n) \div d
        r == (10000 * n) % d
    IN  IF 2 * r < d THEN q
        ELSE IF 2 * r > d THEN q + 1
        ELSE IF q % 2 = 0 THEN q ELSE q + 1

\* Series.max() and Series.min() of the first k values
RECURSIVE SeqMax(_, _)
SeqMax(q, k) ==
    IF k = 1 THEN q[1]
    ELSE LET m == SeqMax(q, k - 1) IN IF q[k] > m THEN q[k] ELSE m

RECURSIVE SeqMin(_, _)
SeqMin(q, k) ==
    IF k = 1 THEN q[1]
    ELSE LET m == SeqMin(q, k - 1) IN IF q[k] < m THEN q[k] ELSE m

\* period_nav.expanding().max() taking the maximum of the whole period
rolling_max_whole(q, k) == SeqMax(q, Len(q))

\* period_nav.expanding().max() at position k
rolling_max(q, k) == SeqMax(q, k)

\* drawdown[i] < drawdown[j], with drawdown = (period_nav - rolling_max) / rolling_max
DrawdownLess(q, i, j) ==
    (q[i] - rolling_max(q, i)) * rolling_max(q, j)
        < (q[j] - rolling_max(q, j)) * rolling_max(q, i)

\* drawdown.idxmin(): the first position of the least drawdown
drawdown_idxmin(q) ==
    CHOOSE i \in 1..Len(q) :
        /\ \A j \in 1..Len(q) : ~DrawdownLess(q, j, i)
        /\ \A j \in 1..(i - 1) : DrawdownLess(q, i, j)

\* period_nav[:end].idxmax() and period_nav[:end].idxmin(): first positions
prefix_idxmax(q, end) == CHOOSE i \in 1..end : q[i] = SeqMax(q, end) /\ \A j \in 1..(i - 1) : q[j] < q[i]
prefix_idxmin(q, end) == CHOOSE i \in 1..end : q[i] = SeqMin(q, end) /\ \A j \in 1..(i - 1) : q[j] > q[i]

\* _calculate_period_metrics(period_dates) for the dates first..last of the
\* history: the returned dict without the benchmark return and the profit
\* and loss, which come from other series
calculate_period_metrics(series, first, last) ==
    IF last - first + 1 <= 1 THEN [of |-> "None"]
    ELSE LET period_nav == SubSeq(series, first, last)
             n == Len(period_nav)
             date(i) == first + i - 1
             max_dd_end == drawdown_idxmin(period_nav)
             max_dd_start == prefix_idxmax(period_nav, max_dd_end)
             max_up_end == prefix_idxmax(period_nav, n)
             max_up_start == prefix_idxmin(period_nav, max_up_end)
         IN  [of |-> "period_metrics",
              total_return |-> Round2Pct(period_nav[n] - period_nav[1], period_nav[1]),
              max_up |-> Round2Pct(period_nav[max_up_end] - period_nav[1], period_nav[1]),
              max_up_days |-> max_up_end - max_up_start,
              max_up_start |-> date(max_up_start),
              max_up_end |-> date(max_up_end),
              max_dd |-> Round2Pct(period_nav[max_dd_end] - rolling_max(period_nav, max_dd_end),
                                   rolling_max(period_nav, max_dd_end)),
              max_dd_days |-> max_dd_end - max_dd_start,
              max_dd_start |-> date(max_dd_start),
              max_dd_end |-> date(max_dd_end)]

\* the calls of _calculate_period_metrics: a history and a period of it
PeriodCalls ==
    { [fn |-> "period_metrics", series |-> h, first |-> a, last |-> b] :
        h \in Histories, a \in 1..MaxLen, b \in 1..MaxLen }

CalculatePeriodMetrics ==
    /\ eval_in.fn = "period_metrics"
    /\ eval_in.first <= eval_in.last
    /\ eval_out = NoResult
    /\ eval_out' = calculate_period_metrics(eval_in.series, eval_in.first, eval_in.last)
    /\ UNCHANGED <<eval_in, trade_info, weightVars, di, pc, err, has_units_col,
                   fund_nav_dict, recordVars, ledgerVars, current_nav,
                   current_unit_nav, current_costs, bookVars, next_id, applied, adj,
                   writes>>

\* benchmark values, and the period (week, month or quarter of the frequency)
\* each date of a history falls in: the first date in period 1, every later
\* date in the period of the date before it or in the next one
BenchValues == {10, 12}

Benchmarks == [1..MaxLen -> BenchValues]

Periodings ==
    { c \in [1..MaxLen -> 1..MaxLen] :
        c[1] = 1 /\ \A i \in 2..MaxLen : c[i] \in {c[i - 1], c[i - 1] + 1} }

\* series.resample(freq).last(): the value of the last date of every period
resample_last(series, periods) ==
    [p \in 1..periods[Len(periods)] |->
        series[MaxOf({i \in 1..Len(series) : periods[i] = p})]]

\* Series.pct_change(): the change on the period before as a fraction, NaN for
\* the first period
pct_change(q) ==
    [p \in 1..Len(q) |->
        IF p = 1 THEN NaN ELSE [n |-> q[p] - q[p - 1], d |-> q[p - 1]]]

\* series.iloc[0] taken at the other end of the series
series_start_last(series) == series[Len(series)]

\* series.iloc[0]
series_start(series) == series[1]

\* returns.iloc[0] = (period.iloc[0] / start - 1) * 100
first_period_fixed(returns, period, start) ==
    [returns EXCEPT ![1] = [n |-> period[1] - start, d |-> start]]

\* _calculate_returns(nav_series, benchmark_series, freq), the dates of the two
\* series being the same and periods giving the period of each under freq
calculate_returns(nav_series, benchmark_series, periods) ==
    LET period_nav == resample_last(nav_series, periods)
        period_bench == resample_last(benchmark_series, periods)
        nav_start == series_start(nav_series)
        bench_start == series_start(benchmark_series)
        nav_returns == first_period_fixed(pct_change(period_nav), period_nav, nav_start)
        bench_returns == first_period_fixed(pct_change(period_bench), period_bench,
                                            bench_start)
    IN  [of |-> "returns",
         portfolio_return |->
            [p \in 1..Len(period_nav) |-> Round2Pct(nav_returns[p].n, nav_returns[p].d)],
         benchmark_return |->
            [p \in 1..Len(period_nav) |-> Round2Pct(bench_returns[p].n, bench_returns[p].d)],
         excess_return |->
            [p \in 1..Len(period_nav) |->
                Round2Pct(nav_returns[p].n * bench_returns[p].d
                              - bench_returns[p].n * nav_returns[p].d,
                          nav_returns[p].d * bench_returns[p].d)]]

\* the calls of _calculate_returns
ReturnCalls ==
    { [fn |-> "returns", nav_series |-> h, benchmark_series |-> b, periods |-> c] :
        h \in Histories, b \in Benchmarks, c \in Periodings }

CalculateReturns ==
    /\ eval_in.fn = "returns"
    /\ eval_out = NoResult
    /\ eval_out' = calculate_returns(eval_in.nav_series, eval_in.benchmark_series,
                                     eval_in.periods)
    /\ UNCHANGED <<eval_in, trade_info, weightVars, di, pc, err, has_units_col,
                   fund_nav_dict, recordVars, ledgerVars, current_nav,
                   current_unit_nav, current_costs, bookVars, next_id, applied, adj,
                   writes>>

\* an evaluator over a finished history
InitEval ==
    /\ redemption_type = "none"
    /\ nav_data = [f \in Funds |-> [d \in Dates |-> NavRows(f, d)]]
    /\ flat_fee = 0
    /\ percentage_fee = 0
    /\ InitPortfolio
    /\ has_units_col = FALSE
    /\ trade_info = <<>>
    /\ trade_info_weights = [d \in 1..LastDate |-> NoRow]
    /\ kwargs = [flat_fee |-> 0, percentage_fee |-> 0]
    /\ eval_in \in {c \in PeriodCalls : c.first <= c.last} \cup ReturnCalls
    /\ eval_out = NoResult

NextEval ==
    \/ CalculatePeriodMetrics
    \/ CalculateReturns

SpecEval == InitEval /\ [][NextEval]_vars

TypeOK ==
    /\ di \in DayIdx
    /\ pc \in {"status", "ingest", "handle", "process", "resettle", "record",
               "recorded", "done", "error"}
    /\ err \in {"none", "ValueError_redeem", "ValueError_type", "TypeError",
                "IndexError"}

(***************************************************************************)
(* Vocabulary of the properties.                                           *)
(***************************************************************************)
SeqSet(q) == {q[k] : k \in 1..Len(q)}

Queued == UNION {SeqSet(confirm_orders[k]) : k \in Dates}

Applied == SeqSet(applied)

Signed(o) == IF o.type = "sub" THEN o.units ELSE -o.units

SignedCost(o) == IF o.type = "sub" THEN o.amount ELSE -o.amount

\* the signed units, and the signed cost, of the entries of a list about fund f
RECURSIVE SumUnits(_, _)
SumUnits(q, f) ==
    IF q = <<>> THEN 0
    ELSE (IF Head(q).fund = f THEN Signed(Head(q)) ELSE 0) + SumUnits(Tail(q), f)

RECURSIVE SumCost(_, _)
SumCost(q, f) ==
    IF q = <<>> THEN 0
    ELSE (IF Head(q).fund = f THEN SignedCost(Head(q)) ELSE 0) + SumCost(Tail(q), f)

\* the units of fund f applied on date d, subscriptions less redemptions
AppliedOn(d, f) ==
    SumUnits(SelectSeq(applied, LAMBDA a : a.on = d), f)

PrevDate(i) == TradeDate(i - 1)

\* the records of the i-th trading date have been written
Recorded(i) == i < di \/ (i = di /\ pc \in {"recorded", "done"})

\* the order process_trade is about to be called with
Visiting == pc = "process" /\ hcur # <<>>
Cur == order_book[Head(hcur)]
CurNav == fund_nav_dict[Cur.fund][nowadays]
CurHeld == units_series[Cur.fund]

\* the step files the order under key
FiledUnder(key) ==
    /\ Len(confirm_orders'[key]) = Len(confirm_orders[key]) + 1
    /\ confirm_orders'[key][Len(confirm_orders'[key])].id = Cur.id
    /\ \A k \in Dates \ {key} : confirm_orders'[k] = confirm_orders[k]

\* a step of _update_confirmed_orders for today's slot
Settling == pc \in {"status", "resettle"}

\* what settling today's slot makes of units and cost, summed per fund
SettledUnits(f) == units_series[f] + SumUnits(confirm_orders[nowadays], f)
SettledCost(f) == costs_series[f] + SumCost(confirm_orders[nowadays], f)

Dusted(x) == IF -DustTicks < x /\ x < DustTicks THEN 0 ELSE x

SettlesExactly ==
    /\ \A f \in Funds :
         /\ units_series'[f] = IF pc = "status" THEN Dusted(SettledUnits(f))
                               ELSE SettledUnits(f)
         /\ costs_series'[f] = SettledCost(f)
    /\ confirm_orders'[nowadays] = <<>>
    /\ applied' = applied \o [k \in 1..Len(confirm_orders[nowadays]) |->
                                [confirm_orders[nowadays][k] EXCEPT !.on = nowadays]]

\* an order accepted on D that states the confirm date D + 2, a trading date
Lagged(o) == o.stated = o.accepted + 2 /\ o.stated \in TradeDates

LaggedVisit ==
    /\ Visiting
    /\ CurNav # NaN
    /\ Cur.confirm = nowadays + 2
    /\ nowadays + 2 \in TradeDates
    /\ pc' # "error"

\* no step but the first settlement of D + 2 touches a lagged order in its slot
LaggedWaits ==
    \A k \in Dates :
        ~(pc = "status" /\ nowadays = k) =>
            {o \in SeqSet(confirm_orders[k]) : Lagged(o)} \subseteq SeqSet(confirm_orders'[k])

WithinTolerance(r, h) == 0 < r - h /\ r - h <= RedeemFatal * Unit

ToleranceClamp ==
    [][ /\ (Visiting /\ CurNav # NaN /\ Cur.type = "red"
              /\ WithinTolerance(Cur.units, CurHeld)) =>
             /\ pc' = "process" /\ err' = "none"
             /\ units_series' = [units_series EXCEPT ![Cur.fund] = Cur.units]
             /\ handled_idx' = Append(handled_idx, Head(hcur))
             /\ \E key \in Dates :
                  /\ FiledUnder(key)
                  /\ confirm_orders'[key][Len(confirm_orders'[key])].units = Cur.units
                  /\ confirm_orders'[key][Len(confirm_orders'[key])].type = "red"
        /\ (Settling /\ \E o \in SeqSet(confirm_orders[nowadays]) :
                            o.type = "red" /\ WithinTolerance(o.units, o.held))
             => SettlesExactly ]_vars

\* a redemption of exactly holding + 10 units and one of the warning regime
\* have been settled
ToleranceClampWitness ==
    \E a, b \in Applied :
        /\ a.type = "red" /\ b.type = "red"
        /\ a.units - a.held = RedeemWarn * Unit
        /\ RedeemWarn * Unit < b.units - b.held
        /\ b.units - b.held <= RedeemFatal * Unit

(***************************************************************************)
(* C4  A redemption validated with more than holding + 1000 units raises:  *)
(* the step ends the run with the error, files nothing in the confirmation *)
(* queue, marks nothing handled and leaves the working units, the cost and *)
(* the outstanding portfolio units as they were; nothing runs after it.    *)
(***************************************************************************)
RedemptionExceedsHoldings ==
    [][ /\ (Visiting /\ CurNav # NaN /\ Cur.type = "red"
              /\ Cur.units > CurHeld + RedeemFatal * Unit) =>
             /\ pc' = "error" /\ err' = "ValueError_redeem"
             /\ confirm_orders' = confirm_orders
             /\ handled_idx' = handled_idx
             /\ units_series' = units_series
             /\ costs_series' = costs_series
             /\ current_units' = current_units
             /\ applied' = applied
        /\ pc # "error" ]_vars

\* the run has ended on a redemption of more than holding + 1000 units
RedemptionExceedsHoldingsWitness ==
    /\ pc = "error" /\ err = "ValueError_redeem"
    /\ \E k \in DOMAIN order_book :
         /\ order_book[k].type = "red"
         /\ order_book[k].units > units_series[order_book[k].fund] + RedeemFatal * Unit
         /\ order_book[k].id \notin {o.id : o \in Queued \cup Applied}
    /\ \E f \in Funds : units_series[f] > 0

(***************************************************************************)
(* C5  An order validated on a date on which its fund has no NAV entry is  *)
(* dropped: once handle_order has returned, the order book holds no order  *)
(* that has been through validation.                                       *)
(***************************************************************************)
Validated(o) ==
    \/ o.tdate < nowadays
    \/ o.tdate = nowadays /\ pc \in {"resettle", "record", "recorded", "done"}

NoNavOrderDropped ==
    pc \notin {"process", "error"} =>
        \A k \in DOMAIN order_book : ~Validated(order_book[k])

(***************************************************************************)
(* C6  No working or recorded units of a fund fall below -tolerance, the   *)
(* tolerance taken as the largest the code knows, 1000 units.              *)
(***************************************************************************)
NoNegativeHoldings ==
    \A f \in Funds :
        /\ units_series[f] >= -(RedeemFatal * Unit)
        /\ \A d \in TradeDates : units_df[d][f] >= -(RedeemFatal * Unit)

(***************************************************************************)
(* C7  Between the steps of the main loop every ingested order is in       *)
(* exactly one place: one entry of the order book, or one entry of one     *)
(* slot of the confirmation queue, or - applied once - in neither.         *)
(***************************************************************************)
RECURSIVE CountId(_, _)
CountId(q, id) ==
    IF q = <<>> THEN 0
    ELSE (IF Head(q).id = id THEN 1 ELSE 0) + CountId(Tail(q), id)

RECURSIVE CountQueued(_, _)
CountQueued(k, id) ==
    IF k < 0 THEN 0
    ELSE CountId(confirm_orders[k], id) + CountQueued(k - 1, id)

InBook(id) == Cardinality({k \in DOMAIN order_book : order_book[k].id = id})

BetweenSteps == pc \notin {"process", "error"}

OneSlotPerOrder ==
    BetweenSteps =>
        \A id \in 1..next_id :
            /\ CountId(applied, id) <= 1
            /\ InBook(id) + CountQueued(LastDate + 2, id) + CountId(applied, id) = 1

\* one order pending, one queued and one applied once handle_order and the
\* re-settlement of the day are through
OneSlotPerOrderWitness ==
    /\ pc = "record"
    /\ \E a, b, c \in 1..next_id :
         /\ InBook(a) = 1
         /\ CountQueued(LastDate + 2, b) = 1
         /\ CountId(applied, c) = 1

(***************************************************************************)
(* C8  NAV consistency: on every date whose records are written, the       *)
(* recorded market value of every fund is the recorded units times the     *)
(* forward-filled price of the fund on the date (NaN before the fund has a *)
(* price).                                                                 *)
(***************************************************************************)
PriceAsOf(f, d) == AsOf([x \in Dates |-> NavData(f, x)], d)

NavConsistency ==
    \A i \in DayIdx : Recorded(i) =>
        \A f \in Funds :
            nav_df[TradeDate(i)][f] =
                IF PriceAsOf(f, TradeDate(i)) = NaN THEN NaN
                ELSE units_df[TradeDate(i)][f] * PriceAsOf(f, TradeDate(i))

\* a date is recorded on which an order settled in the same-day re-settlement
NavConsistencyWitness ==
    \E i \in DayIdx : \E a \in Applied :
        /\ Recorded(i)
        /\ a.on = TradeDate(i) /\ a.accepted = a.on
        /\ units_df[a.on][a.fund] > 0
        /\ PriceAsOf(a.fund, a.on) > 1
        /\ nav_df[a.on][a.fund] > units_df[a.on][a.fund]

(***************************************************************************)
(* C9  Idempotent snapshot: a second _update_portfolio_records for the     *)
(* date just recorded leaves the units, NAV, cost and unit-NAV rows of     *)
(* every date as the first left them.                                      *)
(***************************************************************************)
IdempotentSnapshot ==
    [][ (pc = "recorded" /\ writes = 1 /\ writes' = 2) =>
            /\ units_df' = units_df
            /\ nav_df' = nav_df
            /\ costs_df' = costs_df
            /\ portfolio_series' = portfolio_series ]_vars

\* the records of a date with holdings and cost have been written twice
IdempotentSnapshotWitness ==
    /\ writes = 2
    /\ \E f \in Funds : units_df[nowadays][f] > 0 /\ costs_df[nowadays][f] > 0

(***************************************************************************)
(* C10  Orders never confirm in the past: every order is filed, and        *)
(* applied, under a date not before the date it was accepted on; an order  *)
(* that stated an earlier confirm date is filed under the date of          *)
(* acceptance and has been applied when the records of that date are       *)
(* written.                                                                *)
(***************************************************************************)
NeverConfirmInPast ==
    /\ \A k \in Dates : \A o \in SeqSet(confirm_orders[k]) :
         /\ o.confirm = k
         /\ k >= o.accepted
         /\ (o.stated < o.accepted => k = o.accepted)
         /\ (o.stated < o.accepted => pc \in {"process", "resettle", "error"})
    /\ \A a \in Applied :
         /\ a.on = a.confirm
         /\ a.on >= a.accepted
         /\ (a.stated < a.accepted => a.on = a.accepted)

\* an order that stated a past confirm date has been applied on its day of acceptance
NeverConfirmInPastWitness ==
    \E a \in Applied : a.stated < a.accepted /\ a.on = a.accepted /\ pc = "recorded"

(***************************************************************************)
(* Vocabulary of the weight-mode properties.                               *)
(***************************************************************************)
\* the step generates trades on the date the loop is at
Generating == pc = "ingest" /\ redemption_type # "none"

\* the rows the step appends to self.trade_info
NewRows == SubSeq(trade_info', Len(trade_info) + 1, Len(trade_info'))

RECURSIVE SumAmount(_)
SumAmount(q) == IF q = <<>> THEN 0 ELSE Head(q).amount + SumAmount(Tail(q))

WeightSum(row) == row["F1"] + row["F2"]

(***************************************************************************)
(* C11  First rebalance: the trades generated on the earliest date of the  *)
(* weight table are subscriptions only, one per fund of positive weight,   *)
(* dated that day, each of amount initial_navs x weight, so that the       *)
(* amounts sum to initial_navs x the sum of the weights, whatever          *)
(* current_nav is.                                                         *)
(***************************************************************************)
FirstRebalance ==
    [][ (Generating /\ nowadays = first_trade_date) =>
            LET w == trade_info_weights[nowadays]
            IN  /\ err' = "none"
                /\ \A k \in 1..Len(NewRows) :
                     /\ NewRows[k].type = "sub"
                     /\ NewRows[k].tdate = nowadays
                     /\ w[NewRows[k].fund] > 0
                     /\ NewRows[k].amount * 100 = initial_navs * w[NewRows[k].fund]
                /\ \A f \in Funds : w[f] > 0 =>
                     Cardinality({k \in 1..Len(NewRows) : NewRows[k].fund = f}) = 1
                /\ SumAmount(NewRows) * 100 = initial_navs * WeightSum(w) ]_vars

\* two funds at 0.5 each have been subscribed for the whole notional while the
\* portfolio's own NAV was 0
FirstRebalanceWitness ==
    /\ redemption_type # "none"
    /\ nowadays = first_trade_date
    /\ pc = "handle"
    /\ Len(trade_info) = 2
    /\ trade_info[1].fund # trade_info[2].fund
    /\ trade_info[1].amount = initial_navs \div 2
    /\ SumAmount(trade_info) = initial_navs
    /\ \A f \in Funds : units_series[f] = 0

(***************************************************************************)
(* C12  Weight mode: on a date other than the first rebalance for which    *)
(* the weight table has no row at the switch date (the date itself under   *)
(* "today", the next trading date under "yesterday"), no trade is          *)
(* generated, nothing is raised, and the units, the cost and the           *)
(* confirmation queue are left alone by the step - also before any trade   *)
(* has ever been generated.                                                *)
(***************************************************************************)
SwitchDate == IF redemption_type = "yesterday" THEN TradeDateAfter(1) ELSE nowadays

NoEntry == SwitchDate = NoneVal \/ SwitchDate \notin WeightDates

SkipWithoutEntry ==
    [][ (Generating /\ nowadays # first_trade_date /\ NoEntry) =>
            /\ NewRows = <<>>
            /\ err' = "none"
            /\ pc' \in {"handle", "resettle"}
            /\ UNCHANGED <<units_series, costs_series, confirm_orders>> ]_vars

(***************************************************************************)
(* C13  Explicit-ledger mode: the run is ended by nothing but a redemption *)
(* of more than holding + 1000 units or an unknown trade type, and a run   *)
(* that got through the calendar has written the units, NAV, cost and      *)
(* unit-NAV rows of every date; an order for a fund without a NAV at or    *)
(* before its trade date does not end the run.                             *)
(***************************************************************************)
RowsWritten(d) ==
    /\ nav_df[d] = NavRow(units_df[d], d)
    /\ portfolio_series[d] # NaN

Completed == pc = "done" => \A d \in TradeDates : RowsWritten(d)

CompletesCalendar ==
    /\ pc = "error" => err \in {"ValueError_redeem", "ValueError_type"}
    /\ Completed

(***************************************************************************)
(* C14  A row of trade_info whose trade type is neither subscription nor   *)
(* redemption ends the run in the step that ingests the rows of its trade  *)
(* date - with the ValueError for the type, unless a redemption earlier in *)
(* the same rows has already raised for want of a NAV - and the step puts  *)
(* no such order in the order book, leaves the confirmation queue, the     *)
(* units, the cost and the outstanding portfolio units as they were and    *)
(* applies nothing; nothing runs after it.                                 *)
(***************************************************************************)
KnownTypes == {"sub", "red"}

\* the rows the step selects from trade_info
Selected == SeqSet(trade_info') \ SeqSet(trade_info)

\* a row the loop cannot get past: an unknown type, or a redemption of a fund
\* without a NAV up to the date
Offending(q) ==
    \/ q.type \notin KnownTypes
    \/ q.type = "red" /\ AsOf(fund_nav_dict[q.fund], q.tdate) = NaN

\* the first such row among those the step selects
FirstOffender ==
    CHOOSE q \in Selected : Offending(q) /\ \A x \in Selected : Offending(x) => q.id <= x.id

UnknownTypeFatal ==
    [][ /\ \A r \in Selected : r.type \notin KnownTypes =>
             /\ r.tdate = nowadays
             /\ pc' = "error"
             /\ err' = IF FirstOffender.type \in KnownTypes THEN "TypeError"
                        ELSE "ValueError_type"
             /\ \A k \in DOMAIN order_book' :
                  order_book'[k].type \in KnownTypes /\ order_book'[k].id # r.id
             /\ UNCHANGED <<confirm_orders, units_series, costs_series,
                            current_units, applied>>
        /\ pc # "error" ]_vars

\* the run has ended on an unknown trade type, with holdings, and after a
\* valid row of the same date had entered the order book
UnknownTypeFatalWitness ==
    /\ pc = "error" /\ err = "ValueError_type"
    /\ \E r \in SeqSet(trade_info) : r.type \notin KnownTypes /\ r.tdate = nowadays
    /\ \E k \in DOMAIN order_book : order_book[k].tdate = nowadays
    /\ \E f \in Funds : units_series[f] > 0

(***************************************************************************)
(* C15  Period maximum drawdown: for a period of at least two dates the    *)
(* metrics are returned, the reported maximum drawdown is the least, over  *)
(* the dates t of the period, of (nav_t - highest NAV of the period up to  *)
(* t) / that highest NAV (as a percentage rounded to two decimals), the    *)
(* reported end is a date attaining it, and the reported start is a date   *)
(* up to that end with the highest NAV of the period up to that end.       *)
(***************************************************************************)
PeriodNav == SubSeq(eval_in.series, eval_in.first, eval_in.last)

\* the highest NAV of the period up to its t-th date
PeakUpTo(t) == MaxOf({PeriodNav[i] : i \in 1..t})

\* the drawdown of the t-th date of the period is not above that of the u-th
DeeperOrEqual(t, u) ==
    (PeriodNav[t] - PeakUpTo(t)) * PeakUpTo(u) <= (PeriodNav[u] - PeakUpTo(u)) * PeakUpTo(t)

MaxDrawdown ==
    (eval_in.fn = "period_metrics" /\ eval_out # NoResult
        /\ eval_in.last - eval_in.first + 1 >= 2) =>
        /\ eval_out.of = "period_metrics"
        /\ \E e \in 1..Len(PeriodNav) :
             /\ eval_out.max_dd_end = eval_in.first + e - 1
             /\ \A t \in 1..Len(PeriodNav) : DeeperOrEqual(e, t)
             /\ eval_out.max_dd = Round2Pct(PeriodNav[e] - PeakUpTo(e), PeakUpTo(e))
             /\ \E b \in 1..e :
                  /\ eval_out.max_dd_start = eval_in.first + b - 1
                  /\ PeriodNav[b] = PeakUpTo(e)

\* the metrics of 1.0, 1.2, 0.9, 1.1: -25 %, from the date of 1.2 to that of 0.9
MaxDrawdownWitness ==
    /\ eval_in.fn = "period_metrics"
    /\ PeriodNav = <<10, 12, 9, 11>>
    /\ eval_out # NoResult
    /\ eval_out.max_dd = -2500
    /\ eval_out.max_dd_start = 2
    /\ eval_out.max_dd_end = 3

(***************************************************************************)
(* C16  Periodic returns boundary: in the table _calculate_returns         *)
(* returns, the portfolio and the benchmark return of the first period are *)
(* (value at the end of the period / first value of the series - 1), and   *)
(* those of every later period are (value at the end of the period / value *)
(* at the end of the period before - 1), as percentages rounded to two     *)
(* decimals.                                                               *)
(***************************************************************************)
\* the value of the series on the last date of period p
PeriodEnd(series, p) ==
    series[MaxOf({i \in 1..MaxLen : eval_in.periods[i] = p})]

ReturnOf(series, p) ==
    LET base == IF p = 1 THEN series[1] ELSE PeriodEnd(series, p - 1)
    IN  Round2Pct(PeriodEnd(series, p) - base, base)

ReturnsBoundary ==
    (eval_in.fn = "returns" /\ eval_out # NoResult) =>
        /\ DOMAIN eval_out.portfolio_return = 1..eval_in.periods[MaxLen]
        /\ DOMAIN eval_out.benchmark_return = 1..eval_in.periods[MaxLen]
        /\ \A p \in 1..eval_in.periods[MaxLen] :
             /\ eval_out.portfolio_return[p] = ReturnOf(eval_in.nav_series, p)
             /\ eval_out.benchmark_return[p] = ReturnOf(eval_in.benchmark_series, p)

\* a first period of several dates that starts at 1.0 and ends at 1.1, returned
\* as 10 %, followed by a period with a loss
ReturnsBoundaryWitness ==
    /\ eval_in.fn = "returns" /\ eval_out # NoResult
    /\ eval_in.periods[2] = 1 /\ eval_in.periods[MaxLen] >= 2
    /\ eval_in.nav_series[1] = 10
    /\ PeriodEnd(eval_in.nav_series, 1) = 11
    /\ eval_out.portfolio_return[1] = 1000
    /\ eval_out.portfolio_return[2] < 0
    /\ eval_out.benchmark_return[1] # 0

(***************************************************************************)
(* C17. On every date, in explicit-ledger mode and in weight mode alike,   *)
(* the orders that earlier days queued for the date are applied by step 1  *)
(* of the loop body before anything else happens on the date: whenever a   *)
(* step enters a row into the order book, generates rebalance trades or    *)
(* validates a pending order, the slot of the date holds no order accepted *)
(* on an earlier day, every order an earlier day filed under the date has  *)
(* been applied on the date, and the rows entering the order book carry    *)
(* the date as their trade date.                                           *)
(***************************************************************************)
\* the orders in the slot of today that an earlier day accepted
DueFromEarlier == {o \in SeqSet(confirm_orders[nowadays]) : o.accepted < nowadays}

\* the keys the step adds to the order book
Ingested == (DOMAIN order_book') \ (DOMAIN order_book)

\* the step generates rebalance trades
Generates == redemption_type # "none" /\ trade_info' # trade_info

\* the step validates a pending order
Validates == pc = "process" /\ hcur # <<>> /\ hcur' = Tail(hcur)

SettlementFirst ==
    [][ (Ingested # {} \/ Generates \/ Validates) =>
            /\ pc \in {"ingest", "process"}
            /\ DueFromEarlier = {}
            /\ \A o \in Queued \cup Applied :
                   o.confirm = nowadays /\ o.accepted < nowadays =>
                       o \in Applied /\ o.on = nowadays
            /\ \A k \in Ingested : order_book'[k].tdate = nowadays ]_vars

\* weight mode: an order queued on an earlier day has been applied today, and
\* the trades of a rebalance are about to be generated
SettlementFirstWitness ==
    /\ redemption_type # "none"
    /\ pc = "ingest"
    /\ nowadays # first_trade_date
    /\ SwitchDate \in WeightDates
    /\ \E o \in Applied : o.on = nowadays /\ o.accepted < nowadays

(***************************************************************************)
(* C18. Same-day confirmation: an order accepted on day t and filed under  *)
(* t is applied by the re-settlement step of t, not before, and the units  *)
(* and cost rows written for t include it; and once the records of t are   *)
(* written the confirmation queue has no slot keyed by t or by an earlier  *)
(* date.                                                                   *)
(***************************************************************************)
\* order o was accepted today and filed under today
SameDay(o) == o.accepted = nowadays /\ o.confirm = nowadays

\* the cost of fund f applied on date d, subscriptions less redemptions
CostAppliedOn(d, f) ==
    SumCost(SelectSeq(applied, LAMBDA a : a.on = d), f)

\* the row of the previous trading date, zero before the first
PrevRow(df) == IF di = 1 THEN Zero ELSE df[PrevDate(di)]

SameDayApplied ==
    /\ \A a \in Applied : a.accepted = nowadays =>
           SameDay(a) /\ a.on = nowadays /\ pc \in {"record", "recorded", "done"}
    /\ pc \in {"record", "recorded", "done"} => \A o \in Queued : ~SameDay(o)
    /\ pc \in {"recorded", "done"} =>
           \A f \in Funds :
               /\ costs_df[nowadays][f] = PrevRow(costs_df)[f] + CostAppliedOn(nowadays, f)
               /\ units_df[nowadays][f] =
                      PrevRow(units_df)[f] + AppliedOn(nowadays, f) + adj[nowadays][f]

\* an order accepted and applied today is in the rows written for today
SameDayAppliedWitness ==
    /\ pc = "recorded"
    /\ \E a \in Applied : SameDay(a) /\ a.on = nowadays /\ a.stated = nowadays
                           /\ units_df[nowadays][a.fund] # PrevRow(units_df)[a.fund]

NoSlotUpToToday ==
    pc \in {"recorded", "done"} =>
        \A k \in Dates : k <= nowadays => confirm_orders[k] = <<>>

SameDayConfirmation == SameDayApplied /\ NoSlotUpToToday

(***************************************************************************)
(* C19. Every order accepted into the confirmation queue is applied to the *)
(* ledger and removed from the queue before the run ends, on the date that *)
(* keys its slot: a run that has gone through its last date has an empty   *)
(* queue, and every applied order was applied on the date of its slot.     *)
(***************************************************************************)
EveryOrderApplied ==
    /\ pc = "done" => Queued = {}
    /\ \A a \in Applied : a.on = a.confirm

\* the part that holds: the orders filed under a trading date of the run are
\* applied on that date
AppliedOnTradingDates ==
    /\ \A a \in Applied : a.on = a.confirm
    /\ \A o \in Queued : o.confirm \in TradeDates => o.confirm >= nowadays /\ pc # "done"

(***************************************************************************)
(* C20. Rebalance timing. As stated: the instructions of a non-initial     *)
(* rebalance evaluated on date d all have trade date d and confirm on the  *)
(* next trading day after d under the same-day policy, and all confirm on  *)
(* the trading day after the switch date under the next-day policy.        *)
(***************************************************************************)
\* the step evaluates a rebalance that is not the first
Rebalancing == Generating /\ nowadays # first_trade_date

RebalanceTimingAsStated ==
    [][ Rebalancing =>
          \A r \in SeqSet(NewRows) :
              IF redemption_type = "today"
              THEN r.tdate = nowadays /\ r.confirm = TradeDateAfter(1)
              ELSE r.confirm = TradeDateAfter(2) ]_vars

(***************************************************************************)
(* C20, amended. Under the same-day policy every instruction has trade     *)
(* date d; the redemptions confirm on d itself and the subscriptions on    *)
(* the next trading day after d. Under the next-day policy the switch date *)
(* is the next trading day after d; the redemptions have trade date d and  *)
(* confirm on the switch date, the subscriptions have the switch date as   *)
(* trade date and confirm on the trading day after it. Instructions are    *)
(* generated only when the weight table has rows for the switch date.      *)
(***************************************************************************)
RebalanceTiming ==
    [][ Rebalancing =>
          \A r \in SeqSet(NewRows) :
              /\ SwitchDate \in WeightDates
              /\ r.type \in {"red", "sub"}
              /\ r.type = "red" => r.tdate = nowadays /\ r.confirm = SwitchDate
              /\ r.type = "sub" => r.tdate = SwitchDate /\ r.confirm > SwitchDate
              /\ r.type = "sub" =>
                     r.confirm = TradeDateAfter(IF redemption_type = "today" THEN 1 ELSE 2) ]_vars

\* a rebalance under the next-day policy has generated a redemption confirming
\* on the switch date and a subscription dated the switch date
RebalanceTimingWitness ==
    /\ redemption_type = "yesterday"
    /\ \E r, q \in SeqSet(trade_info) :
          /\ r.type = "red" /\ q.type = "sub"
          /\ r.tdate < r.confirm
          /\ q.tdate = r.confirm
          /\ q.confirm > q.tdate

(***************************************************************************)
(* C21. In one rebalance event, under either timing policy, redemptions    *)
(* and subscriptions are both sized from units x NAV on the switch date,   *)
(* so no instrument gets both a redemption and a subscription.             *)
(***************************************************************************)
\* units x NAV on date d, the target value and the implied target units of fund f
ValueOn(f, d) == units_series[f] * fund_nav_df(d)[f]
TargetOf(f) == TargetValue(current_nav, trade_info_weights[SwitchDate][f])

\* row r is sized from the NAV of date d
SizedOn(r, d) ==
    IF r.type = "red"
    THEN r.units = units_series[r.fund] - TargetOf(r.fund) \div fund_nav_df(d)[r.fund]
    ELSE r.amount = TargetOf(r.fund) - ValueOn(r.fund, d)

\* no fund has rows of both types among the rows
OneLeg(rows) == \A r, q \in SeqSet(rows) : r.fund = q.fund => r.type = q.type

OneLegPerInstrument ==
    [][ Rebalancing =>
          /\ OneLeg(NewRows)
          /\ \A r \in SeqSet(NewRows) : SizedOn(r, SwitchDate) ]_vars

\* the part that holds: under the same-day policy both legs are sized from the
\* NAV of the date and no fund gets both; under the next-day policy the
\* redemptions are sized from the NAV of the date of evaluation
OneLegSameDay ==
    [][ Rebalancing =>
          /\ redemption_type = "today" => OneLeg(NewRows)
          /\ \A r \in SeqSet(NewRows) :
                 SizedOn(r, IF r.type = "red" THEN nowadays ELSE SwitchDate) ]_vars

(***************************************************************************)
(* C22. Redeem-before-subscribe: when a subscription of a rebalance event  *)
(* is validated, every redemption of the same event has already been       *)
(* validated and filed in the confirmation queue, and no redemption of the *)
(* event confirms later than the subscription.                             *)
(***************************************************************************)
\* the switch date of the event a generated row belongs to
EventOf(r) == IF r.type = "red" THEN r.confirm ELSE r.tdate

\* the step validates and files the subscription at the head of the order book
ValidatesSubscription ==
    /\ redemption_type # "none"
    /\ Visiting
    /\ Cur.type = "sub"
    /\ CurNav # NaN

RedeemBeforeSubscribe ==
    [][ ValidatesSubscription =>
          \A r \in SeqSet(trade_info) :
              (r.type = "red" /\ EventOf(r) = EventOf(Cur)) =>
                  /\ r.confirm <= Cur.confirm
                  /\ \E a \in Queued \cup Applied :
                         /\ a.id = r.id
                         /\ a.accepted <= nowadays
                         /\ a.confirm <= RecordKey(nowadays, Cur.confirm) ]_vars

\* a subscription has been validated on the day the redemption of its event was
RedeemBeforeSubscribeWitness ==
    /\ redemption_type = "today"
    /\ \E a, o \in Queued \cup Applied :
          /\ a.type = "red" /\ o.type = "sub"
          /\ a.accepted = o.accepted
          /\ EventOf(trade_info[a.id]) = EventOf(trade_info[o.id])

(***************************************************************************)
(* C23. Unit-NAV hold: step 1 of a date sets the portfolio unit NAV to the *)
(* total of units x price, taken after the settlement and the dust clamp,  *)
(* divided by the outstanding portfolio units when these exceed 1e-4, and  *)
(* leaves it alone otherwise; no other step changes it; the value recorded *)
(* for the date is that unit NAV, so that with negligible outstanding      *)
(* units it is the value recorded for the previous date, 1.0 on the first. *)
(***************************************************************************)
\* more than 1e-4 portfolio units are outstanding
Outstanding(pu) == pu # NaN /\ pu # NegInf /\ (pu = PosInf \/ pu > DustTicks)

\* the unit NAV recorded for the previous date, 1.0 before the first
PrevUnitNav == IF di = 1 THEN NavScale ELSE portfolio_series[PrevDate(di)]

UnitNavHold ==
    [][ /\ pc = "status" =>
              current_unit_nav' =
                  IF Outstanding(current_units')
                  THEN UnitNavOf(NanSum(NavRow(units_series', nowadays), Funds),
                                 current_units')
                  ELSE PrevUnitNav
        /\ pc # "status" => current_unit_nav' = current_unit_nav
        /\ \A d \in TradeDates :
              portfolio_series'[d] # portfolio_series[d] =>
                  d = nowadays /\ pc = "record" /\ portfolio_series'[d] = current_unit_nav
        /\ pc' \in {"recorded", "done"} => portfolio_series'[nowadays] = current_unit_nav' ]_vars

\* a date recorded with the unit NAV held while between 0 and 1e-4 portfolio
\* units were outstanding at its step 1
UnitNavHoldWitness ==
    /\ pc = "ingest"
    /\ di >= 2
    /\ current_units > 0
    /\ current_units <= DustTicks
    /\ current_unit_nav = PrevUnitNav

(***************************************************************************)
(* C24. Dust clamp: every units value written into the units matrix is     *)
(* exactly 0 or at least 1e-4 in absolute value, on every date and for     *)
(* every instrument, same-day re-settlement included.                      *)
(***************************************************************************)
NoDustRecorded ==
    \A d \in TradeDates : \A f \in Funds :
        units_df[d][f] = 0 \/ Abs(units_df[d][f]) >= DustTicks

\* the part that holds: the working holdings carry no dust when step 1 is over
NoDustAfterStatus ==
    pc = "ingest" => \A f \in Funds : units_series[f] = 0 \/ Abs(units_series[f]) >= DustTicks

(***************************************************************************)
(* C25. A subscription of amount a with flat fee f and percentage fee p,   *)
(* validated on day t at the instrument's NAV n of day t, is filed with    *)
(* (a - f) / n / (1 + p/100) units and amount a; these units and this cost *)
(* are added to the instrument when the order is applied, which happens on *)
(* the date keying its slot (its confirm date, or t if that is past), not  *)
(* at validation, and the NAV of the confirm date plays no part.           *)
(***************************************************************************)
\* the row of trade_info an accepted order came from
RowOfOrder(o) == trade_info[o.id]

\* the units the subscription o must carry
UnitsDue(o) ==
    LET row == RowOfOrder(o)
        n == fund_nav_dict[o.fund][o.accepted]
    IN  MulDiv((row.amount - row.flat) \div n, 100, 100 + row.pct)

SubscriptionUnits ==
    [][ /\ \A o \in Queued' \cup Applied' :
              o.type = "sub" =>
                  /\ o.units = UnitsDue(o)'
                  /\ o.amount = RowOfOrder(o)'.amount
                  /\ o.confirm = IF o.stated < o.accepted THEN o.accepted ELSE o.stated
                  /\ o \in Applied' => o.on = o.confirm
        /\ applied' # applied =>
              /\ pc \in {"status", "resettle"}
              /\ \A f \in Funds :
                    /\ costs_series'[f] = SettledCost(f)
                    /\ units_series'[f] \in {SettledUnits(f), Dusted(SettledUnits(f))}
        /\ applied' = applied => costs_series' = costs_series ]_vars

\* a subscription with a percentage fee, applied after its day of validation on
\* a date whose NAV differs from the NAV it was validated at
SubscriptionUnitsWitness ==
    \E a \in Applied :
        /\ a.type = "sub"
        /\ RowOfOrder(a).pct > 0
        /\ a.on > a.accepted
        /\ fund_nav_dict[a.fund][a.on] # fund_nav_dict[a.fund][a.accepted]
        /\ units_series[a.fund] = a.units
        /\ costs_series[a.fund] = a.amount

(***************************************************************************)
(* C26. The maximum run-up of a period mirrors the maximum drawdown: it is *)
(* the greatest, over the dates t of the period, of (nav_t - lowest NAV of *)
(* the period up to t) / that lowest NAV; its end is the date attaining    *)
(* it, its start the date of the lowest NAV at or before the end.          *)
(***************************************************************************)
\* the lowest NAV of the period up to its t-th date
TroughUpTo(t) == MinOf({PeriodNav[i] : i \in 1..t})

\* the run-up of the t-th date of the period is not below that of the u-th
HigherOrEqual(t, u) ==
    (PeriodNav[t] - TroughUpTo(t)) * TroughUpTo(u) >= (PeriodNav[u] - TroughUpTo(u)) * TroughUpTo(t)

MaxRunUpSymmetric ==
    (eval_in.fn = "period_metrics" /\ eval_out # NoResult
        /\ eval_in.last - eval_in.first + 1 >= 2) =>
        /\ eval_out.of = "period_metrics"
        /\ \E e \in 1..Len(PeriodNav) :
             /\ eval_out.max_up_end = eval_in.first + e - 1
             /\ \A t \in 1..Len(PeriodNav) : HigherOrEqual(e, t)
             /\ eval_out.max_up = Round2Pct(PeriodNav[e] - TroughUpTo(e), TroughUpTo(e))
             /\ \E b \in 1..e :
                  /\ eval_out.max_up_start = eval_in.first + b - 1
                  /\ PeriodNav[b] = TroughUpTo(e)

\* what the method returns: the rise of the highest NAV of the period over the
\* FIRST NAV of the period, ending on the first date of the highest NAV and
\* starting on the first date of the lowest NAV up to that end
MaxRunUpFromFirst ==
    (eval_in.fn = "period_metrics" /\ eval_out # NoResult
        /\ eval_in.last - eval_in.first + 1 >= 2) =>
        /\ eval_out.of = "period_metrics"
        /\ \E e \in 1..Len(PeriodNav) :
             /\ eval_out.max_up_end = eval_in.first + e - 1
             /\ PeriodNav[e] = PeakUpTo(Len(PeriodNav))
             /\ eval_out.max_up = Round2Pct(PeriodNav[e] - PeriodNav[1], PeriodNav[1])
             /\ \E b \in 1..e :
                  /\ eval_out.max_up_start = eval_in.first + b - 1
                  /\ PeriodNav[b] = TroughUpTo(e)

(***************************************************************************)
(* C27. The validation of a redemption changes the working holdings only   *)
(* when the requested units exceed the holding: a redemption of r <= h     *)
(* units of an instrument holding h leaves the working holding at h.       *)
(***************************************************************************)
\* the step validates the redemption at the head of the order book
ValidatesRedemption == Visiting /\ Cur.type = "red" /\ CurNav # NaN

ValidationKeepsHolding ==
    [][ (ValidatesRedemption /\ Cur.units <= CurHeld) =>
            units_series' = units_series ]_vars

\* the part that holds: the holding is kept when the request is more than 10
\* units below it, and overwritten with the request when it is within 10 units
ValidationKeepsHoldingBelowTolerance ==
    [][ /\ (ValidatesRedemption /\ Cur.units < CurHeld - RedeemWarn * Unit) =>
              units_series' = units_series
        /\ (ValidatesRedemption /\ Cur.units <= CurHeld
                /\ Cur.units >= CurHeld - RedeemWarn * Unit) =>
              units_series' = [units_series EXCEPT ![Cur.fund] = Cur.units] ]_vars

(***************************************************************************)
(* C28. Cost ledger: at every moment the working cost of an instrument is  *)
(* the sum of the amounts of its applied subscriptions less the sum of the *)
(* proceeds of its applied redemptions, and the cost recorded for a date   *)
(* is that sum over the orders applied up to the date; the proceeds of a   *)
(* redemption are the amount supplied, or else units x NAV x (1 - fee%) -  *)
(* flat fee at the NAV of the day of validation.  Nothing else changes the *)
(* cost.                                                                   *)
(***************************************************************************)
\* the proceeds the redemption o must carry
ProceedsDue(o) ==
    LET row == RowOfOrder(o)
        n == fund_nav_dict[o.fund][o.accepted]
    IN  IF row.amount = NaN
        THEN MulDiv(o.units * n, 100 - row.pct, 100) - row.flat
        ELSE row.amount

\* the orders applied up to date d
AppliedUpTo(d) == SelectSeq(applied, LAMBDA a : a.on <= d)

CostLedger ==
    /\ \A f \in Funds : costs_series[f] = SumCost(applied, f)
    /\ \A i \in DayIdx : Recorded(i) =>
           \A f \in Funds : costs_df[TradeDate(i)][f] = SumCost(AppliedUpTo(TradeDate(i)), f)
    /\ \A o \in Queued \cup Applied : o.type = "red" => o.amount = ProceedsDue(o)

\* a subscription and a redemption with fees and computed proceeds are in the
\* cost recorded for an instrument
CostLedgerWitness ==
    /\ pc = "recorded"
    /\ \E a, b \in Applied :
          /\ a.type = "red" /\ b.type = "sub" /\ a.fund = b.fund
          /\ RowOfOrder(a).amount = NaN
          /\ RowOfOrder(a).pct > 0
          /\ costs_df[nowadays][a.fund] = SumCost(applied, a.fund)
          /\ costs_df[nowadays][a.fund] # 0

(***************************************************************************)
(* C29. Cash-balanced rebalance: in a rebalance that is not the first,     *)
(* under the same-day policy, with a NAV for every instrument on the date  *)
(* and target weights summing to 1, the cash of the generated              *)
(* subscriptions equals the value, units x NAV of the date, of the         *)
(* generated redemptions, and an instrument holding units whose target     *)
(* weight is 0 is redeemed for exactly its whole holding: every            *)
(* instruction generated for it is a redemption of the whole holding, and  *)
(* one is generated whenever the calendar has a trading day after the date *)
(* to confirm on (without one nothing is generated at all).  The sizes are *)
(* fixed-point numbers, so the two sums agree up to the rounding of one    *)
(* tick per target value and per redemption.                               *)
(***************************************************************************)
\* the rebalance of the step is one the statement is about
BalancedCase ==
    /\ Rebalancing
    /\ redemption_type = "today"
    /\ nowadays \in WeightDates
    /\ WeightSum(trade_info_weights[nowadays]) = 100
    /\ \A f \in Funds : fund_nav_df(nowadays)[f] # NaN

\* the rows of one type among the rows
RowsOfType(rows, t) == SelectSeq(rows, LAMBDA r : r.type = t)

\* units x NAV of date d, summed over the rows
RECURSIVE SumValue(_, _)
SumValue(q, d) ==
    IF q = <<>> THEN 0
    ELSE Head(q).units * fund_nav_df(d)[Head(q).fund] + SumValue(Tail(q), d)

\* the fixed-point rounding of the sizes: less than one tick of value for each
\* target value and less than one tick of units for each redemption
RECURSIVE SumNav(_, _)
SumNav(q, d) ==
    IF q = <<>> THEN 0 ELSE fund_nav_df(d)[Head(q).fund] + SumNav(Tail(q), d)
RoundingSlack(rows, d) == Len(FundSeq) + SumNav(RowsOfType(rows, "red"), d)

\* |a - b|
Dist(a, b) == IF a >= b THEN a - b ELSE b - a

CashBalanced ==
    [][ BalancedCase =>
          /\ Dist(SumAmount(RowsOfType(NewRows, "sub")),
                  SumValue(RowsOfType(NewRows, "red"), nowadays))
                 <= RoundingSlack(NewRows, nowadays)
          /\ \A f \in Funds :
                 trade_info_weights[nowadays][f] = 0 /\ units_series[f] > 0 =>
                     /\ TradeDateAfter(1) # NoneVal =>
                            \E r \in SeqSet(NewRows) : r.fund = f /\ r.type = "red"
                     /\ \A r \in SeqSet(NewRows) :
                            r.fund = f => r.type = "red" /\ r.units = units_series[f] ]_vars

\* a rebalance under the same-day policy has generated a redemption of the
\* whole holding of a fund with target weight 0 and a subscription of the
\* other fund for the value redeemed
CashBalancedWitness ==
    /\ redemption_type = "today"
    /\ pc = "handle"
    /\ nowadays \in WeightDates /\ nowadays # first_trade_date
    /\ WeightSum(trade_info_weights[nowadays]) = 100
    /\ \A f \in Funds : fund_nav_df(nowadays)[f] # NaN
    /\ \E r, q \in SeqSet(trade_info) :
          /\ r.type = "red" /\ q.type = "sub"
          /\ r.tdate = nowadays /\ q.tdate = nowadays
          /\ trade_info_weights[nowadays][r.fund] = 0
          /\ r.units = units_series[r.fund]
          /\ r.units > 0
          /\ Dist(q.amount, r.units * fund_nav_df(nowadays)[r.fund])
                 <= RoundingSlack(<<r>>, nowadays)

(***************************************************************************)
(* C30. Fee source in weight mode: whatever flat_fee and percentage_fee    *)
(* were passed to the constructor, every generated trade carries the       *)
(* flat_fee and percentage_fee keyword arguments of backtest() (0 when     *)
(* not given), and the units of every accepted subscription and the        *)
(* proceeds of every accepted redemption are computed with those; the      *)
(* constructor's values enter nothing.                                     *)
(***************************************************************************)
FeeSource ==
    /\ \A r \in SeqSet(trade_info) \cup {order_book[k] : k \in DOMAIN order_book} :
           r.flat = kwargs.flat_fee /\ r.pct = kwargs.percentage_fee
    /\ \A o \in Queued \cup Applied :
           LET n == fund_nav_dict[o.fund][o.accepted]
           IN  IF o.type = "sub"
               THEN o.units = SubscribeUnitsOf(o.amount, kwargs.flat_fee,
                                               kwargs.percentage_fee, n)
               ELSE o.amount = RedeemProceedsOf(o.units, kwargs.flat_fee,
                                                kwargs.percentage_fee, n)

\* a backtest constructed with fees and run without fee arguments has
\* recorded a holding bought at no fee
FeeSourceWitness ==
    /\ redemption_type # "none"
    /\ flat_fee > 0 /\ percentage_fee > 0
    /\ kwargs.flat_fee = 0 /\ kwargs.percentage_fee = 0
    /\ pc = "recorded"
    /\ \E a \in Applied :
          /\ a.type = "sub"
          /\ a.units = a.amount \div fund_nav_dict[a.fund][a.accepted]
          /\ units_df[nowadays][a.fund] > 0

====
